---- MODULE Spec2Model ----
(***************************************************************************)
(* A model of the pseudocode interpreter (services/interpreter: Lexer,     *)
(* Parser, Environment, Interpreter) and of the React driver in App.tsx    *)
(* that runs it (Run / Debug / Step Over / Continue / Stop / input).       *)
(*                                                                         *)
(* The evaluator is an async generator.  It is modelled as an abstract     *)
(* machine: a continuation stack `k` whose frames are the resumption       *)
(* points of the generator functions (executeStatementGenerator,           *)
(* executeBlockGenerator, executeCallGenerator) and of the async function  *)
(* evaluate, a value stack `vs` holding the results of awaited evaluate    *)
(* calls, the Environment objects (`envs`) and the EnvironmentEntry        *)
(* objects (`slots`).  One evaluator transition is the code between two    *)
(* resumption points.  The evaluator is suspended only at a yield that     *)
(* reaches the driver (debug mode) and at a pending inputProvider promise; *)
(* everything else runs as microtasks, before the browser handles another  *)
(* user event.                                                             *)
(***************************************************************************)
EXTENDS Integers, Sequences, FiniteSets, TLC

(***************************************************************************)
(* Values.  A JavaScript value held by the interpreter: null, a number, a  *)
(* string or a boolean.  Numbers are integers here; the catalogue of       *)
(* programs below computes with integers only; a number outside them, or   *)
(* a value of another kind, is an "other" value.                           *)
(***************************************************************************)
NullV == [t |-> "null", n |-> 0, s |-> ""]
NumV(n) == [t |-> "num", n |-> n, s |-> ""]
StrV(s) == [t |-> "str", n |-> 0, s |-> s]
BoolV(b) == [t |-> "bool", n |-> IF b THEN 1 ELSE 0, s |-> ""]
\* a JavaScript array: the reference to the object m.arrays[ref]
ArrV(ref) == [t |-> "arr", n |-> ref, s |-> ""]

\* JavaScript truthiness, as used by if (condition), while (...), && and ||.
Truthy(v) ==
    CASE v.t = "null" -> FALSE
      [] v.t = "num" -> v.n # 0
      [] v.t = "str" -> v.s # ""
      [] v.t = "arr" -> TRUE
      [] OTHER -> v.n = 1

\* ToNumber of a value that is not a string (null is 0, true is 1).
ToNumber(v) == v.n

\* typeof v === 'number'
IsNumber(v) == v.t = "num"

\* left == right (loose equality) on values of the same kind, null against
\* anything, and booleans against numbers.
LooseEq(l, r) ==
    CASE l.t = "null" \/ r.t = "null" -> l.t = r.t
      [] l.t = "str" /\ r.t = "str" -> l.s = r.s
      [] l.t = "str" \/ r.t = "str" -> FALSE
      [] OTHER -> l.n = r.n

(***************************************************************************)
(* AST nodes, with the field names of the Parser's object literals.        *)
(***************************************************************************)
Literal(v, line) == [type |-> "LITERAL", value |-> v, lineNumber |-> line]
Identifier(name, line) == [type |-> "IDENTIFIER", name |-> name, lineNumber |-> line]
BinaryExpression(l, op, r, line) ==
    [type |-> "BINARY_EXPRESSION", left |-> l, operator |-> op, right |-> r, lineNumber |-> line]
UnaryExpression(op, r, line) ==
    [type |-> "UNARY_EXPRESSION", operator |-> op, right |-> r, lineNumber |-> line]
Grouping(e, line) == [type |-> "GROUPING", expression |-> e, lineNumber |-> line]
FunctionCall(callee, args, line) ==
    [type |-> "FUNCTION_CALL", callee |-> callee, args |-> args, lineNumber |-> line]
TapMarker == [type |-> "TAP_MARKER"]

\* A declarator without and with an initializer (hasInit stands for the
\* optional field being present).
Declarator(identifier) ==
    [identifier |-> identifier, hasInit |-> FALSE, initializer |-> NullV, hasSize |-> FALSE, size |-> NullV]
DeclaratorInit(identifier, init) ==
    [identifier |-> identifier, hasInit |-> TRUE, initializer |-> init, hasSize |-> FALSE, size |-> NullV]
\* identifier[size] = elements: the Parser makes the elements an ArrayLiteral
DeclaratorArray(identifier, size, elements, line) ==
    [identifier |-> identifier, hasInit |-> elements # <<>>,
     initializer |-> [type |-> "ARRAY_LITERAL", elements |-> elements, lineNumber |-> line],
     hasSize |-> TRUE, size |-> size]
ArrayAccess(array, index, line) ==
    [type |-> "ARRAY_ACCESS", array |-> array, index |-> index, lineNumber |-> line]
VariableDeclaration(dataType, isConstant, declarations, line) ==
    [type |-> "VARIABLE_DECLARATION", dataType |-> dataType, declarations |-> declarations,
     isConstant |-> isConstant, lineNumber |-> line]
Assignment(lvalue, value, line) ==
    [type |-> "ASSIGNMENT", lvalue |-> lvalue, value |-> value, lineNumber |-> line]
DisplayStatement(values, line) == [type |-> "DISPLAY_STATEMENT", values |-> values, lineNumber |-> line]
InputStatement(identifier, line) ==
    [type |-> "INPUT_STATEMENT", identifier |-> identifier, lineNumber |-> line]
IfStatement(condition, thenBranch, line) ==
    [type |-> "IF_STATEMENT", condition |-> condition, thenBranch |-> thenBranch,
     hasElse |-> FALSE, elseBranch |-> <<>>, lineNumber |-> line]
IfElseStatement(condition, thenBranch, elseBranch, line) ==
    [type |-> "IF_STATEMENT", condition |-> condition, thenBranch |-> thenBranch,
     hasElse |-> TRUE, elseBranch |-> elseBranch, lineNumber |-> line]
WhileStatement(condition, body, line) ==
    [type |-> "WHILE_STATEMENT", condition |-> condition, body |-> body, lineNumber |-> line]
DoWhileStatement(body, condition, line) ==
    [type |-> "DO_WHILE_STATEMENT", body |-> body, condition |-> condition, lineNumber |-> line]
DoUntilStatement(body, condition, line) ==
    [type |-> "DO_UNTIL_STATEMENT", body |-> body, condition |-> condition, lineNumber |-> line]
ForStatement(identifier, start, end, body, line) ==
    [type |-> "FOR_STATEMENT", identifier |-> identifier, start |-> start, end |-> end,
     body |-> body, lineNumber |-> line]
CallStatement(name, args, line) ==
    [type |-> "CALL_STATEMENT", name |-> name, args |-> args, lineNumber |-> line]
ReturnStatement(value, line) == [type |-> "RETURN_STATEMENT", value |-> value, lineNumber |-> line]
Parameter(name, dataType, isReference) ==
    [name |-> name, dataType |-> dataType, isReference |-> isReference, isArray |-> FALSE]
ArrayParameter(name, dataType, isReference) ==
    [name |-> name, dataType |-> dataType, isReference |-> isReference, isArray |-> TRUE]
ModuleStatement(name, parameters, body, line) ==
    [type |-> "MODULE_STATEMENT", name |-> name, parameters |-> parameters, body |-> body,
     lineNumber |-> line]
FunctionDeclaration(name, returnType, parameters, body, line) ==
    [type |-> "FUNCTION_DECLARATION", name |-> name, returnType |-> returnType,
     parameters |-> parameters, body |-> body, lineNumber |-> line]


(***************************************************************************)
(* Errors: the thrown objects the evaluator and the driver tell apart by   *)
(* instanceof.                                                             *)
(***************************************************************************)
NoError == [kind |-> "none", message |-> "", lineNumber |-> 0, value |-> NullV]
InterpreterError(message, line) ==
    [kind |-> "InterpreterError", message |-> message, lineNumber |-> line, value |-> NullV]
ProgramStoppedError ==
    [kind |-> "ProgramStoppedError", message |-> "Program execution was stopped by the user.",
     lineNumber |-> 0, value |-> NullV]
\* a plain Error, as thrown by Environment.define
PlainError(message) == [kind |-> "Error", message |-> message, lineNumber |-> 0, value |-> NullV]
ReturnError(value) == [kind |-> "ReturnError", message |-> "Return value", lineNumber |-> 0, value |-> value]

(***************************************************************************)
(* String.prototype.toLowerCase on the identifiers, keywords and type      *)
(* names that occur in the catalogue of programs.  Spellings not listed    *)
(* are already lower case.                                                 *)
(***************************************************************************)
LowerCaseOf ==
    ("inputFeet" :> "inputfeet") @@ ("getFeet" :> "getfeet") @@ ("Main" :> "main") @@ ("showY" :> "showy") @@
    ("Integer" :> "integer") @@ ("Real" :> "real") @@ ("String" :> "string") @@
    ("And" :> "and") @@ ("Or" :> "or") @@ ("Not" :> "not") @@ ("Mod" :> "mod") @@
    ("MOD" :> "mod") @@ ("Total" :> "total") @@ ("TOTAL" :> "total") @@
    ("N" :> "n") @@ ("X" :> "x") @@ ("INTEGER" :> "integer") @@
    ("If" :> "if") @@ ("Else" :> "else") @@ ("ELSE" :> "else") @@ ("End" :> "end") @@
    ("Do" :> "do") @@ ("Until" :> "until") @@ ("Display" :> "display") @@ ("Then" :> "then") @@
    ("While" :> "while")

toLowerCase(name) == IF name \in DOMAIN LowerCaseOf THEN LowerCaseOf[name] ELSE name

(***************************************************************************)
(* Lexer, on one word of the source.  A keyword is matched ignoring case   *)
(* and its token's value is the key of Lexer.KEYWORDS, in lower case; any  *)
(* other word is an identifier whose token's value is the word as it was   *)
(* written.  The Parser copies token values into the AST.                  *)
(***************************************************************************)
\* the keys of Lexer.KEYWORDS that the programs below spell out
KEYWORDS == {"declare", "integer", "real", "string", "input", "display", "set"}

\* Lexer.matchKeyword succeeds for some keyword
matchKeyword(word) == toLowerCase(word) \in KEYWORDS

\* Lexer.consumeIdentifier
consumeIdentifier(word) == [type |-> "IDENTIFIER", value |-> word]

\* one turn of the loop of Lexer.tokenize: the token pushed
tokenize(word) ==
    IF matchKeyword(word) THEN [type |-> "KEYWORD", value |-> toLowerCase(word)]
    ELSE consumeIdentifier(word)

(***************************************************************************)
(* Environment.  m.envs is the sequence of live Environment objects, each  *)
(* [enclosing, values, base]: `values` is the Map in insertion order, an   *)
(* entry [key, slot] naming the EnvironmentEntry object m.slots[slot];     *)
(* enclosing = 0 is null.  Environment 1 is `globals`.  Two Map entries    *)
(* naming the same slot are the same object (a by-reference parameter).    *)
(* `base` is the number of slots that existed when the Environment was     *)
(* created: an Environment and every object created after it become        *)
(* unreachable together, when the block that owns it exits.                *)
(***************************************************************************)
NewEnvironment(m, enclosing) ==
    [m EXCEPT !.envs = Append(@, [enclosing |-> enclosing, values |-> <<>>, base |-> Len(m.slots)])]

\* this.values.has(lowerName)
EnvHas(m, e, lowerName) == \E i \in 1..Len(m.envs[e].values) : m.envs[e].values[i].key = lowerName

\* this.values.get(lowerName)
EnvGet(m, e, lowerName) ==
    LET i == CHOOSE i \in 1..Len(m.envs[e].values) : m.envs[e].values[i].key = lowerName
    IN  m.envs[e].values[i].slot

AlreadyDefined(name) == PlainError("Variable " \o name \o " already defined in this scope.")

\* A variant of define that, like Map.set alone, replaces the entry of a
\* name that exists.
defineOverwriting(m, e, name, isConstant, dataType, value) ==
    LET lowerName == toLowerCase(name)
        entry == [value |-> value, isConstant |-> isConstant, dataType |-> dataType,
                  originalName |-> name]
    IN  IF EnvHas(m, e, lowerName)
        THEN [err |-> NoError, m |-> [m EXCEPT !.slots[EnvGet(m, e, lowerName)] = entry]]
        ELSE [err |-> NoError,
              m |-> [m EXCEPT
                       !.slots = Append(@, entry),
                       !.envs[e].values = Append(@, [key |-> lowerName, slot |-> Len(m.slots) + 1])]]

\* Environment.define: the result is [err, m]; err = NoError when it returns.
define(m, e, name, isConstant, dataType, value) ==
    LET lowerName == toLowerCase(name)
    IN  IF EnvHas(m, e, lowerName)
        THEN [err |-> AlreadyDefined(name), m |-> m]
        ELSE [err |-> NoError,
              m |-> [m EXCEPT
                       !.slots = Append(@, [value |-> value, isConstant |-> isConstant,
                                            dataType |-> dataType, originalName |-> name]),
                       !.envs[e].values = Append(@, [key |-> lowerName, slot |-> Len(m.slots) + 1])]]

\* Environment.defineReference: the Map entry is the caller's EnvironmentEntry.
defineReference(m, e, name, valueEntry) ==
    LET lowerName == toLowerCase(name)
    IN  IF EnvHas(m, e, lowerName)
        THEN [err |-> AlreadyDefined(name), m |-> m]
        ELSE [err |-> NoError,
              m |-> [m EXCEPT !.envs[e].values = Append(@, [key |-> lowerName, slot |-> valueEntry])]]

\* Environment.getEntry: the slot, or 0 where the code throws 'not found'.
RECURSIVE getEntry(_, _, _)
getEntry(m, e, name) ==
    LET lowerName == toLowerCase(name)
    IN  IF EnvHas(m, e, lowerName) THEN EnvGet(m, e, lowerName)
        ELSE IF m.envs[e].enclosing # 0 THEN getEntry(m, m.envs[e].enclosing, name)
        ELSE 0

NotFound(name, line) == InterpreterError("Variable \"" \o name \o "\" not found.", line)

\* Environment.assign: [err, m].
RECURSIVE assign(_, _, _, _, _)
assign(m, e, name, value, lineNumber) ==
    LET lowerName == toLowerCase(name)
    IN  IF EnvHas(m, e, lowerName)
        THEN LET existing == EnvGet(m, e, lowerName)
             IN  IF m.slots[existing].isConstant
                 THEN [err |-> InterpreterError("Cannot assign to constant \"" \o name \o "\".", lineNumber),
                       m |-> m]
                 ELSE [err |-> NoError, m |-> [m EXCEPT !.slots[existing].value = value]]
        ELSE IF m.envs[e].enclosing # 0
             THEN assign(m, m.envs[e].enclosing, name, value, lineNumber)
             ELSE [err |-> InterpreterError("Variable \"" \o name \o "\" has not been declared.", lineNumber),
                   m |-> m]

\* Object.assign(scope, ...) / scope[name] = value: g's keys override f's.
Override(f, g) == [x \in DOMAIN f \cup DOMAIN g |-> IF x \in DOMAIN g THEN g[x] ELSE f[x]]

\* the for-loop of serialize over this.values, from entry i on
RECURSIVE serializeOwn(_, _, _, _)
serializeOwn(m, e, i, scope) ==
    IF i > Len(m.envs[e].values) THEN scope
    ELSE LET entry == m.slots[m.envs[e].values[i].slot]
         IN  serializeOwn(m, e, i + 1, Override(scope, entry.originalName :> entry.value))

\* Environment.serialize: originalName -> value, outer scopes first.
RECURSIVE serialize(_, _)
serialize(m, e) ==
    serializeOwn(m, e, 1, IF m.envs[e].enclosing # 0 THEN serialize(m, m.envs[e].enclosing) ELSE <<>>)


(***************************************************************************)
(* The evaluator machine.                                                  *)
(*   prog         index of the program (the parsed `statements`)           *)
(*   mode         "run" (Interpreter.run drains the generator) or "debug"  *)
(*   k            continuation stack, head first                           *)
(*   vs           results of awaited evaluate() calls, last pushed last    *)
(*   envs, slots  the Environment and EnvironmentEntry objects             *)
(*   environment  this.environment (an index into envs)                    *)
(*   status       "running"   microtasks of the evaluator are pending      *)
(*                "yielded"   suspended at a yield delivered to the driver *)
(*                "awaiting"  suspended on the inputProvider promise       *)
(*                "done"      the generator returned                       *)
(*                "thrown"    the generator threw `error`                  *)
(*   yielded      the DebuggerState of the last delivered yield            *)
(*   call         the host callback made by the last transition            *)
(*   trace        history of what the evaluator did, in order: "step" (a   *)
(*                yield delivered to the driver), "exec" (the switch of a  *)
(*                statement entered outside an expression-level function   *)
(*                call), "display", "input", "define", "assign"            *)
(*   absorbed     a yield was consumed by evaluate's for-await loop        *)
(*   afterStop    history: the transitions made while shouldStop() was     *)
(*                returning true                                           *)
(*   orphans      the calls of evaluate that are still running although    *)
(*                the Promise.all that started them has rejected           *)
(*   turn         whose microtask runs next: 0 the generator, i orphan i   *)
(*   par          a Promise.all over several arguments has been started    *)
(*   arrays       the JavaScript arrays made by array declarations         *)
(***************************************************************************)
NoCall == [cb |-> "none", arg |-> <<>>]

Event(ev, line, data) == [ev |-> ev, lineNumber |-> line, data |-> data]

Log(m, ev, line, data) == [m EXCEPT !.trace = Append(@, Event(ev, line, data))]

PushV(m, v) == [m EXCEPT !.vs = Append(@, v)]
TopV(m, back) == m.vs[Len(m.vs) - back]
PopV(m, n) == [m EXCEPT !.vs = SubSeq(@, 1, Len(@) - n)]

\* The objects created since Environment e (e included) are unreachable,
\* unless calls that ran concurrently (m.par) may still hold them.
Release(m, e) ==
    IF m.par \/ e > Len(m.envs) THEN m
    ELSE [m EXCEPT !.envs = SubSeq(@, 1, e - 1), !.slots = SubSeq(@, 1, m.envs[e].base)]

\* An expression-level function call is in progress: evaluate's for-await
\* loop over executeCallGenerator is on the stack.
InFunctionCall(k) == \E i \in 1..Len(k) : k[i].f = "fcall"

(***************************************************************************)
(* throw: unwinds the continuation stack.  A block frame runs the finally  *)
(* of executeBlockGenerator; an fcall frame is the try/catch of evaluate   *)
(* (FUNCTION_CALL), which turns a ReturnError into the call's value and    *)
(* rethrows anything else.  With no frame left the generator has thrown.   *)
(***************************************************************************)
\* A variant of Throw in which a block left by a throw keeps its
\* Environment as the current one.
RECURSIVE ThrowNoFinally(_, _)
ThrowNoFinally(m, err) ==
    IF m.k = <<>>
    THEN [m EXCEPT !.status = "thrown", !.error = err, !.vs = <<>>]
    ELSE LET f == Head(m.k)
             rest == Tail(m.k)
         IN  CASE f.f = "fcall" /\ err.kind = "ReturnError" ->
                    [m EXCEPT !.k = rest, !.vs = Append(SubSeq(m.vs, 1, f.vsBase), err.value)]
               [] OTHER -> ThrowNoFinally([m EXCEPT !.k = rest], err)

RECURSIVE Throw(_, _)
Throw(m, err) ==
    IF m.k = <<>>
    THEN [m EXCEPT !.status = "thrown", !.error = err, !.vs = <<>>]
    ELSE LET f == Head(m.k)
             rest == Tail(m.k)
         IN  CASE f.f = "block" ->
                    Throw(Release([m EXCEPT !.k = rest, !.environment = f.previousEnv], f.environment), err)
               [] f.f = "fcall" /\ err.kind = "ReturnError" ->
                    [m EXCEPT !.k = rest, !.vs = Append(SubSeq(m.vs, 1, f.vsBase), err.value)]
               [] OTHER -> Throw([m EXCEPT !.k = rest], err)

\* Interpreter.checkStopSignal: TRUE when it throws ProgramStoppedError.
checkStopSignal(shouldStop) == shouldStop

(***************************************************************************)
(* The programs.  Statements(p) is the Parser's output for program p; the  *)
(* catalogue is defined further down.                                      *)
(***************************************************************************)
IsDeclared(stmts, type, lowerName) ==
    \E i \in 1..Len(stmts) : stmts[i].type = type /\ toLowerCase(stmts[i].name) = lowerName

\* Map.get after the constructor's Map.set calls: the last declaration wins.
Declared(stmts, type, lowerName) ==
    LET i == CHOOSE i \in 1..Len(stmts) :
                 /\ stmts[i].type = type /\ toLowerCase(stmts[i].name) = lowerName
                 /\ \A j \in (i + 1)..Len(stmts) :
                        ~(stmts[j].type = type /\ toLowerCase(stmts[j].name) = lowerName)
    IN  stmts[i]

StmtFrames(stmts) == [i \in 1..Len(stmts) |-> [f |-> "stmt", stmt |-> stmts[i]]]
IsVariableDeclaration(s) == s.type = "VARIABLE_DECLARATION"
IsNotFunctionDeclaration(s) == s.type # "FUNCTION_DECLARATION"

\* A variant of runGenerator that invokes main before the top-level
\* declarations.
runGeneratorMainFirst(m, stmts, rest, shouldStop) ==
    IF checkStopSignal(shouldStop) THEN Throw([m EXCEPT !.k = rest], ProgramStoppedError)
    ELSE IF \E i \in 1..Len(stmts) : stmts[i].type = "MODULE_STATEMENT"
    THEN IF ~IsDeclared(stmts, "MODULE_STATEMENT", "main")
         THEN Throw([m EXCEPT !.k = rest],
                    InterpreterError("A 'main' module is required when other modules are defined.", 1))
         ELSE [m EXCEPT !.k = <<[f |-> "call", callee |-> Declared(stmts, "MODULE_STATEMENT", "main"),
                                 args |-> <<>>, lineNumber |-> 1]>>
                               \o StmtFrames(SelectSeq(stmts, IsVariableDeclaration)) \o rest]
    ELSE [m EXCEPT !.k = StmtFrames(SelectSeq(stmts, IsNotFunctionDeclaration)) \o rest]

\* Interpreter.runGenerator
runGenerator(m, stmts, rest, shouldStop) ==
    IF checkStopSignal(shouldStop) THEN Throw([m EXCEPT !.k = rest], ProgramStoppedError)
    ELSE IF \E i \in 1..Len(stmts) : stmts[i].type = "MODULE_STATEMENT"
    THEN IF ~IsDeclared(stmts, "MODULE_STATEMENT", "main")
         THEN Throw([m EXCEPT !.k = rest],
                    InterpreterError("A 'main' module is required when other modules are defined.", 1))
         ELSE [m EXCEPT !.k = StmtFrames(SelectSeq(stmts, IsVariableDeclaration))
                             \o <<[f |-> "call", callee |-> Declared(stmts, "MODULE_STATEMENT", "main"),
                                   args |-> <<>>, lineNumber |-> 1]>> \o rest]
    ELSE [m EXCEPT !.k = StmtFrames(SelectSeq(stmts, IsNotFunctionDeclaration)) \o rest]

\* executeBlockGenerator, entered by yield*: previousEnv = this.environment;
\* this.environment = environment.
EnterBlock(m, statements, environment, rest) ==
    [m EXCEPT !.environment = environment,
              !.k = <<[f |-> "block", statements |-> statements, i |-> 1,
                       environment |-> environment, previousEnv |-> m.environment]>> \o rest]

\* A variant of executeBlockGenerator without the finally: the block's
\* Environment stays the current one.
executeBlockGeneratorNoFinally(m, f, rest, shouldStop) ==
    IF f.i > Len(f.statements) THEN [m EXCEPT !.k = rest]
    ELSE IF checkStopSignal(shouldStop) THEN Throw(m, ProgramStoppedError)
    ELSE [m EXCEPT !.k = <<[f |-> "stmt", stmt |-> f.statements[f.i]], [f EXCEPT !.i = @ + 1]>> \o rest]

\* executeBlockGenerator: one turn of its for loop, or its finally.
executeBlockGenerator(m, f, rest, shouldStop) ==
    IF f.i > Len(f.statements)
    THEN Release([m EXCEPT !.k = rest, !.environment = f.previousEnv], f.environment)
    ELSE IF checkStopSignal(shouldStop) THEN Throw(m, ProgramStoppedError)
    ELSE [m EXCEPT !.k = <<[f |-> "stmt", stmt |-> f.statements[f.i]], [f EXCEPT !.i = @ + 1]>> \o rest]

\* Variants of YieldReachesDriver that the properties below must tell from
\* it: yields of loop bodies never reach the driver; yields inside an
\* expression-level function call reach the driver too.
YieldOutsideLoops(m, rest) ==
    /\ m.mode = "debug"
    /\ \A i \in 1..Len(rest) : rest[i].f \notin {"fcall", "whileTest", "doTest", "for"}

YieldInAnyCall(m, rest) == m.mode = "debug"

\* The consumer of a yield: evaluate's for-await loop or Interpreter.run
\* take the value and ask for the next one; in debug mode the driver gets it.
YieldReachesDriver(m, rest) == m.mode = "debug" /\ ~InFunctionCall(rest)

\* A variant of executeStatementGenerator that emits the step event and
\* goes on to the statement without waiting for next().
executeStatementGeneratorRunsOn(m, f, rest, shouldStop) ==
    IF checkStopSignal(shouldStop) THEN Throw([m EXCEPT !.k = rest], ProgramStoppedError)
    ELSE LET state == [lineNumber |-> f.stmt.lineNumber, scope |-> serialize(m, m.environment)]
             next == [m EXCEPT !.k = <<[f |-> "exec", stmt |-> f.stmt]>> \o rest]
         IN  IF YieldReachesDriver(m, rest)
             THEN Log([next EXCEPT !.yielded = state], "step", state.lineNumber, state.scope)
             ELSE [next EXCEPT !.absorbed = @ \/ InFunctionCall(rest)]

\* executeStatementGenerator up to its yield.
executeStatementGenerator(m, f, rest, shouldStop) ==
    IF checkStopSignal(shouldStop) THEN Throw([m EXCEPT !.k = rest], ProgramStoppedError)
    ELSE LET state == [lineNumber |-> f.stmt.lineNumber, scope |-> serialize(m, m.environment)]
             next == [m EXCEPT !.k = <<[f |-> "exec", stmt |-> f.stmt]>> \o rest]
         IN  IF YieldReachesDriver(m, rest)
             THEN Log([next EXCEPT !.status = "yielded", !.yielded = state],
                      "step", state.lineNumber, state.scope)
             ELSE [next EXCEPT !.absorbed = @ \/ InFunctionCall(rest)]


(***************************************************************************)
(* evaluate.  An "eval" frame is a call of evaluate(expr); the frames it   *)
(* pushes are its awaits, and its result is pushed on vs.                  *)
(***************************************************************************)
Eval(expr) == [f |-> "eval", expr |-> expr]

\* A number outside the integer fragment (a quotient that is not an integer).
OtherV == [t |-> "other", n |-> 0, s |-> ""]

Abs(x) == IF x < 0 THEN -x ELSE x

\* left % right of JavaScript: the sign of the result is the dividend's.
JsRemainder(l, r) == IF l < 0 THEN -(Abs(l) % Abs(r)) ELSE Abs(l) % Abs(r)

\* left / right where the quotient is an integer
JsQuotient(l, r) == IF (l < 0) = (r < 0) THEN Abs(l) \div Abs(r) ELSE -(Abs(l) \div Abs(r))

\* String(v)
JsString(v) ==
    CASE v.t = "null" -> "null"
      [] v.t = "num" -> ToString(v.n)
      [] v.t = "bool" -> IF v.n = 1 THEN "true" ELSE "false"
      [] OTHER -> v.s

\* left + right
JsPlus(l, r) ==
    IF l.t = "str" \/ r.t = "str" THEN StrV(JsString(l) \o JsString(r))
    ELSE NumV(ToNumber(l) + ToNumber(r))

\* the switch on binaryExpr.operator.toLowerCase(): [err, value]
BinaryOp(expr, left, right) ==
    LET op == toLowerCase(expr.operator)
        Val(v) == [err |-> NoError, value |-> v]
        Err(msg) == [err |-> InterpreterError(msg, expr.lineNumber), value |-> NullV]
    IN  CASE op = "+" -> Val(JsPlus(left, right))
          [] op = "-" -> Val(NumV(ToNumber(left) - ToNumber(right)))
          [] op = "*" -> Val(NumV(ToNumber(left) * ToNumber(right)))
          [] op = "/" ->
                IF IsNumber(right) /\ right.n = 0 THEN Err("Division by zero.")
                ELSE IF ToNumber(right) # 0 /\ JsRemainder(ToNumber(left), ToNumber(right)) = 0
                     THEN Val(NumV(JsQuotient(ToNumber(left), ToNumber(right))))
                     ELSE Val(OtherV)
          [] op \in {"mod", "%"} ->
                IF ~IsNumber(left) \/ ~IsNumber(right) THEN Err("Operands for MOD must be numbers.")
                ELSE IF right.n = 0 THEN Err("Division by zero in MOD operation.")
                ELSE Val(NumV(JsRemainder(left.n, right.n)))
          [] op = ">" -> Val(BoolV(ToNumber(left) > ToNumber(right)))
          [] op = "<" -> Val(BoolV(ToNumber(left) < ToNumber(right)))
          [] op = ">=" -> Val(BoolV(ToNumber(left) >= ToNumber(right)))
          [] op = "<=" -> Val(BoolV(ToNumber(left) <= ToNumber(right)))
          [] op = "==" -> Val(BoolV(LooseEq(left, right)))
          [] op = "!=" -> Val(BoolV(~LooseEq(left, right)))
          [] op = "and" -> Val(IF Truthy(left) THEN right ELSE left)
          [] op = "or" -> Val(IF Truthy(left) THEN left ELSE right)
          [] OTHER -> Err("Unknown operator: " \o expr.operator)

\* evaluate, BINARY_EXPRESSION after both awaits
evaluateBinary(m, f, rest) ==
    LET r == BinaryOp(f.expr, TopV(m, 1), TopV(m, 0))
        m1 == PopV([m EXCEPT !.k = rest], 2)
    IN  IF r.err # NoError THEN Throw(m1, r.err) ELSE PushV(m1, r.value)

\* evaluate, UNARY_EXPRESSION after its await
evaluateUnary(m, f, rest) ==
    LET op == toLowerCase(f.expr.operator)
        v == TopV(m, 0)
        m1 == PopV([m EXCEPT !.k = rest], 1)
    IN  CASE op = "-" -> PushV(m1, NumV(-ToNumber(v)))
          [] op = "not" -> PushV(m1, BoolV(~Truthy(v)))
          [] OTHER -> Throw(m1, InterpreterError("Unknown unary operator: " \o f.expr.operator,
                                                 f.expr.lineNumber))

\* builtInFunctions: the argCount of each built-in, as the set of accepted
\* argument counts
builtInFunctions ==
    [sqrt |-> {1}, round |-> {1}, abs |-> {1}, cos |-> {1}, sin |-> {1}, tan |-> {1},
     power |-> {2}, random |-> {2}, tointeger |-> {1}, toreal |-> {1}, stringtointeger |-> {1},
     stringtoreal |-> {1}, isinteger |-> {1}, isreal |-> {1}, currencyformat |-> {1},
     length |-> {1}, toupper |-> {1}, tolower |-> {1}, append |-> {2}, contains |-> {2},
     substring |-> {2, 3}]

\* expectedMessage of the argument-count error
ExpectedMessage(calleeName) ==
    IF calleeName = "substring" THEN "either 2 or 3"
    ELSE ToString(CHOOSE n \in builtInFunctions[calleeName] : TRUE)

\* builtIn.implementation(...evaluatedArgs) on integers and strings; results
\* outside that fragment are OtherV
BuiltInResult(calleeName, args) ==
    CASE calleeName = "abs" /\ IsNumber(args[1]) -> NumV(Abs(args[1].n))
      [] calleeName \in {"tointeger", "toreal", "round"} /\ IsNumber(args[1]) -> args[1]
      [] calleeName = "length" -> NumV(Len(JsString(args[1])))
      [] calleeName = "append" -> StrV(JsString(args[1]) \o JsString(args[2]))
      [] OTHER -> OtherV

\* evaluate, FUNCTION_CALL of a built-in after await Promise.all(...)
evaluateBuiltIn(m, f, rest) ==
    LET n == Len(f.expr.args)
        evaluatedArgs == SubSeq(m.vs, Len(m.vs) - n + 1, Len(m.vs))
    IN  PushV(PopV([m EXCEPT !.k = rest], n), BuiltInResult(toLowerCase(f.expr.callee), evaluatedArgs))

\* evaluate: the switch on expr.type up to its first await
evaluate(m, f, rest, stmts) ==
    LET expr == f.expr
        m1 == [m EXCEPT !.k = rest]
    IN  CASE expr.type = "LITERAL" -> PushV(m1, expr.value)
          [] expr.type = "IDENTIFIER" ->
                LET entry == getEntry(m, m.environment, expr.name)
                IN  IF entry = 0 THEN Throw(m1, NotFound(expr.name, expr.lineNumber))
                    ELSE PushV(m1, m.slots[entry].value)
          [] expr.type = "BINARY_EXPRESSION" ->
                [m EXCEPT !.k = <<Eval(expr.left), Eval(expr.right), [f |-> "binary", expr |-> expr]>> \o rest]
          [] expr.type = "UNARY_EXPRESSION" ->
                [m EXCEPT !.k = <<Eval(expr.right), [f |-> "unary", expr |-> expr]>> \o rest]
          [] expr.type = "GROUPING" -> [m EXCEPT !.k = <<Eval(expr.expression)>> \o rest]
          [] expr.type = "ARRAY_ACCESS" ->
                [m EXCEPT !.k = <<Eval(expr.array), Eval(expr.index), [f |-> "index", expr |-> expr]>>
                                    \o rest]
          [] expr.type = "FUNCTION_CALL" ->
                IF toLowerCase(expr.callee) \in DOMAIN builtInFunctions
                THEN IF Len(expr.args) \notin builtInFunctions[toLowerCase(expr.callee)]
                     THEN Throw(m1, InterpreterError(
                              "Built-in function \"" \o expr.callee \o "\" expects "
                                  \o ExpectedMessage(toLowerCase(expr.callee)) \o " arguments, but got "
                                  \o ToString(Len(expr.args)) \o ".", expr.lineNumber))
                     ELSE IF Len(expr.args) >= 2
                     THEN [m EXCEPT !.par = TRUE,
                                    !.k = <<[f |-> "all", expr |-> expr, turn |-> 1, held |-> 0,
                                             callerEnv |-> m.environment,
                                             promises |-> [i \in 1..Len(expr.args) |->
                                                 [k |-> <<Eval(expr.args[i])>>, vs |-> <<>>,
                                                  state |-> "pending", value |-> NullV]]]>> \o rest]
                     ELSE [m EXCEPT !.k = [i \in 1..Len(expr.args) |-> Eval(expr.args[i])]
                                            \o <<[f |-> "builtin", expr |-> expr,
                                                  callerEnv |-> m.environment]>> \o rest]
                ELSE IF ~IsDeclared(stmts, "FUNCTION_DECLARATION", toLowerCase(expr.callee))
                THEN Throw(m1, InterpreterError("Function \"" \o expr.callee \o "\" not found.",
                                                expr.lineNumber))
                ELSE LET funcToCall == Declared(stmts, "FUNCTION_DECLARATION", toLowerCase(expr.callee))
                     IN  [m EXCEPT !.k = <<[f |-> "call", callee |-> funcToCall, args |-> expr.args,
                                            lineNumber |-> expr.lineNumber],
                                           [f |-> "fcall", name |-> funcToCall.name,
                                            lineNumber |-> expr.lineNumber, vsBase |-> Len(m.vs)]>>
                                         \o rest]

\* the checks of an array and an index made by evaluate (ARRAY_ACCESS) and
\* by ASSIGNMENT: the error thrown, or NoError
ArrayAccessError(m, accessExpr, array, index) ==
    IF array.t # "arr"
    THEN InterpreterError("Cannot access an element of a non-array variable.", accessExpr.lineNumber)
    ELSE IF ~(IsNumber(index) /\ index.n >= 0 /\ index.n < Len(m.arrays[array.n]))
    THEN InterpreterError("Array index out of bounds. Index " \o JsString(index)
                              \o " is not valid for array of size "
                              \o ToString(Len(m.arrays[array.n])) \o ".", accessExpr.lineNumber)
    ELSE NoError

\* evaluate, ARRAY_ACCESS after its two awaits
evaluateArrayAccess(m, f, rest) ==
    LET array == TopV(m, 1)
        index == TopV(m, 0)
        m1 == PopV([m EXCEPT !.k = rest], 2)
        err == ArrayAccessError(m, f.expr, array, index)
    IN  IF err # NoError THEN Throw(m1, err) ELSE PushV(m1, m.arrays[array.n][index.n + 1])

\* evaluate, FUNCTION_CALL: the for-await loop ended without a ReturnError
evaluateFunctionEnd(m, f, rest) ==
    Throw([m EXCEPT !.k = rest],
          InterpreterError("Function \"" \o f.name \o "\" did not return a value.", f.lineNumber))


(***************************************************************************)
(* Input lines are sequences of characters.                                *)
(***************************************************************************)
DigitValue ==
    ("0" :> 0) @@ ("1" :> 1) @@ ("2" :> 2) @@ ("3" :> 3) @@ ("4" :> 4) @@
    ("5" :> 5) @@ ("6" :> 6) @@ ("7" :> 7) @@ ("8" :> 8) @@ ("9" :> 9)

IsSpace(c) == c \in {" ", "\t"}

RECURSIVE TrimStart(_)
TrimStart(t) == IF t # <<>> /\ IsSpace(Head(t)) THEN TrimStart(Tail(t)) ELSE t

RECURSIVE TrimEnd(_)
TrimEnd(t) == IF t # <<>> /\ IsSpace(t[Len(t)]) THEN TrimEnd(SubSeq(t, 1, Len(t) - 1)) ELSE t

\* String.prototype.trim
Trim(t) == TrimEnd(TrimStart(t))

\* \d+
Digits(t) == t # <<>> /\ \A i \in 1..Len(t) : t[i] \in DOMAIN DigitValue

Unsigned(t) == IF t # <<>> /\ Head(t) = "-" THEN Tail(t) ELSE t

\* /^-?\d+$/.test(t)
IntegerPattern(t) == Digits(Unsigned(t))

\* /^-?\d+(\.\d+)?$/.test(t)
RealPattern(t) ==
    \/ Digits(Unsigned(t))
    \/ \E p \in 1..Len(Unsigned(t)) :
          /\ Unsigned(t)[p] = "."
          /\ Digits(SubSeq(Unsigned(t), 1, p - 1))
          /\ Digits(SubSeq(Unsigned(t), p + 1, Len(Unsigned(t))))

RECURSIVE DigitsValue(_, _)
DigitsValue(t, acc) == IF t = <<>> THEN acc ELSE DigitsValue(Tail(t), 10 * acc + DigitValue[Head(t)])

\* parseInt(t, 10) of a text that matches the integer pattern
parseInt(t) == IF Head(t) = "-" THEN -DigitsValue(Tail(t), 0) ELSE DigitsValue(t, 0)

RECURSIVE JoinChars(_)
JoinChars(t) == IF t = <<>> THEN "" ELSE Head(t) \o JoinChars(Tail(t))

\* parseFloat(t) of a text that matches the real pattern: an integer, or a
\* number with a fraction, kept as its text
parseFloat(t) ==
    IF IntegerPattern(t) THEN NumV(parseInt(t)) ELSE [t |-> "other", n |-> 0, s |-> JoinChars(t)]

\* A variant of validateAndParseInput that takes a line that is no number
\* for the number 0.
validateAndParseInputLenient(input, type) ==
    LET trimmedInput == Trim(input)
        lower == toLowerCase(type)
    IN  CASE lower = "integer" ->
                [isValid |-> TRUE, value |-> IF IntegerPattern(trimmedInput)
                                             THEN NumV(parseInt(trimmedInput)) ELSE NumV(0)]
          [] lower = "real" ->
                [isValid |-> TRUE, value |-> IF RealPattern(trimmedInput)
                                             THEN parseFloat(trimmedInput) ELSE NumV(0)]
          [] OTHER -> [isValid |-> TRUE, value |-> StrV(JoinChars(input))]

\* Interpreter.validateAndParseInput
validateAndParseInput(input, type) ==
    LET trimmedInput == Trim(input)
        lower == toLowerCase(type)
    IN  CASE lower = "integer" ->
                IF IntegerPattern(trimmedInput)
                THEN [isValid |-> TRUE, value |-> NumV(parseInt(trimmedInput))]
                ELSE [isValid |-> FALSE, value |-> NullV]
          [] lower = "real" ->
                IF RealPattern(trimmedInput)
                THEN [isValid |-> TRUE, value |-> parseFloat(trimmedInput)]
                ELSE [isValid |-> FALSE, value |-> NullV]
          [] OTHER -> [isValid |-> TRUE, value |-> StrV(JoinChars(input))]

(***************************************************************************)
(* executeStatementGenerator after its yield: the switch on stmt.type.     *)
(***************************************************************************)
\* VARIABLE_DECLARATION: the end of one turn of the declarator loop
defineDeclared(m, stmt, i, initialValue, rest) ==
    LET declaration == stmt.declarations[i]
    IN  IF stmt.isConstant /\ initialValue.t = "null"
        THEN Throw([m EXCEPT !.k = rest],
                   InterpreterError("Constant \"" \o declaration.identifier \o "\" must be initialized.",
                                    stmt.lineNumber))
        ELSE LET r == define(m, m.environment, declaration.identifier, stmt.isConstant,
                             stmt.dataType, initialValue)
             IN  IF r.err # NoError THEN Throw([m EXCEPT !.k = rest], r.err)
                 ELSE Log([r.m EXCEPT !.k = <<[f |-> "declare", stmt |-> stmt, i |-> i + 1]>> \o rest],
                          "define", stmt.lineNumber, declaration.identifier)

\* VARIABLE_DECLARATION: the declarator loop (scalar declarators)
execVariableDeclaration(m, f, rest) ==
    IF f.i > Len(f.stmt.declarations) THEN [m EXCEPT !.k = rest]
    ELSE LET declaration == f.stmt.declarations[f.i]
         IN  IF declaration.hasSize
             THEN [m EXCEPT !.k = <<Eval(declaration.size),
                                    [f |-> "declareArray", stmt |-> f.stmt, i |-> f.i, j |-> 0,
                                     ref |-> 0]>> \o rest]
             ELSE IF declaration.hasInit
             THEN IF declaration.initializer.type = "ARRAY_LITERAL"
                  THEN Throw([m EXCEPT !.k = rest],
                             InterpreterError("Cannot initialize a scalar variable with an array literal.",
                                              declaration.initializer.lineNumber))
                  ELSE [m EXCEPT !.k = <<Eval(declaration.initializer),
                                         [f |-> "define", stmt |-> f.stmt, i |-> f.i]>> \o rest]
             ELSE defineDeclared(m, f.stmt, f.i, NullV, rest)

\* VARIABLE_DECLARATION of an array: after await this.evaluate(declaration.size)
\* (f.j = 0) and after the await of element f.j of the initializer
execDeclareArray(m, f, rest) ==
    LET declaration == f.stmt.declarations[f.i]
        elements == declaration.initializer.elements
        top == TopV(m, 0)
        m1 == PopV(m, 1)
        thrown == [m1 EXCEPT !.k = rest]
    IN  IF f.j = 0
        THEN IF ~(IsNumber(top) /\ top.n >= 0)
             THEN Throw(thrown, InterpreterError("Array size must be a non-negative integer.",
                                                 declaration.size.lineNumber))
             ELSE LET m2 == [m1 EXCEPT !.arrays = Append(@, [x \in 1..top.n |-> NullV])]
                  IN  IF ~declaration.hasInit
                      THEN defineDeclared(m2, f.stmt, f.i, ArrV(Len(m2.arrays)), rest)
                      ELSE IF declaration.initializer.type # "ARRAY_LITERAL"
                      THEN Throw(thrown, InterpreterError(
                               "Array initializer must be a comma-separated list of values.",
                               declaration.initializer.lineNumber))
                      ELSE IF Len(elements) > top.n
                      THEN Throw(thrown, InterpreterError(
                               "Too many initializers for array \"" \o declaration.identifier
                                   \o "\". Expected " \o ToString(top.n) \o ", got "
                                   \o ToString(Len(elements)) \o ".",
                               declaration.initializer.lineNumber))
                      ELSE [m2 EXCEPT !.k = <<Eval(elements[1]),
                                              [f EXCEPT !.j = 1, !.ref = Len(m2.arrays)]>> \o rest]
        ELSE LET m2 == [m1 EXCEPT !.arrays[f.ref][f.j] = top]
             IN  IF f.j < Len(elements)
                 THEN [m2 EXCEPT !.k = <<Eval(elements[f.j + 1]), [f EXCEPT !.j = @ + 1]>> \o rest]
                 ELSE defineDeclared(m2, f.stmt, f.i, ArrV(f.ref), rest)

\* VARIABLE_DECLARATION after await this.evaluate(declaration.initializer)
execDefine(m, f, rest) == defineDeclared(PopV(m, 1), f.stmt, f.i, TopV(m, 0), rest)

\* ASSIGNMENT after await this.evaluate(assignment.value)
execAssignment(m, f, rest) ==
    LET value == TopV(m, 0)
        m1 == PopV([m EXCEPT !.k = rest], 1)
    IN  IF f.stmt.lvalue.type = "IDENTIFIER"
        THEN LET r == assign(m1, m1.environment, f.stmt.lvalue.name, value, f.stmt.lineNumber)
             IN  IF r.err # NoError THEN Throw(m1, r.err)
                 ELSE Log(r.m, "assign", f.stmt.lineNumber, f.stmt.lvalue.name)
        ELSE IF f.stmt.lvalue.type = "ARRAY_ACCESS"
        THEN [m EXCEPT !.k = <<Eval(f.stmt.lvalue.array), Eval(f.stmt.lvalue.index),
                               [f |-> "assignElement", stmt |-> f.stmt]>> \o rest]
        ELSE Throw(m1, InterpreterError("Invalid assignment target.", f.stmt.lineNumber))

\* ASSIGNMENT to an ARRAY_ACCESS after the awaits of the array and the index
\* A variant of execAssignElement that gives the value to every element.
execAssignElementFill(m, f, rest) ==
    LET value == TopV(m, 2)
        array == TopV(m, 1)
        index == TopV(m, 0)
        m1 == PopV([m EXCEPT !.k = rest], 3)
        err == ArrayAccessError(m, f.stmt.lvalue, array, index)
    IN  IF err # NoError THEN Throw(m1, err)
        ELSE Log([m1 EXCEPT !.arrays[array.n] = [j \in 1..Len(@) |-> value]],
                 "assign", f.stmt.lineNumber, "[]")

execAssignElement(m, f, rest) ==
    LET value == TopV(m, 2)
        array == TopV(m, 1)
        index == TopV(m, 0)
        m1 == PopV([m EXCEPT !.k = rest], 3)
        err == ArrayAccessError(m, f.stmt.lvalue, array, index)
    IN  IF err # NoError THEN Throw(m1, err)
        ELSE Log([m1 EXCEPT !.arrays[array.n][index.n + 1] = value],
                 "assign", f.stmt.lineNumber, "[]")

\* A variant of execDisplay that hands every Tap to displayProvider as soon
\* as it is met.
execDisplayEachTap(m, f, rest, shouldStop) ==
    LET values == f.stmt.values
    IN  IF f.i > Len(values)
        THEN LET evaluatedValues == SubSeq(m.vs, Len(m.vs) - Len(values) + 1, Len(m.vs))
             IN  Log([PopV(m, Len(values)) EXCEPT !.k = rest,
                                                  !.call = [cb |-> "display", arg |-> evaluatedValues]],
                     "display", f.stmt.lineNumber, evaluatedValues)
        ELSE IF checkStopSignal(shouldStop) THEN Throw([m EXCEPT !.k = rest], ProgramStoppedError)
        ELSE IF values[f.i].type = "TAP_MARKER"
             THEN Log(PushV([m EXCEPT !.k = <<[f EXCEPT !.i = @ + 1]>> \o rest,
                                      !.call = [cb |-> "display", arg |-> <<StrV("    ")>>]], StrV("    ")),
                      "display", f.stmt.lineNumber, <<StrV("    ")>>)
             ELSE [m EXCEPT !.k = <<Eval(values[f.i]), [f EXCEPT !.i = @ + 1]>> \o rest]

\* DISPLAY_STATEMENT: one turn of the loop over displayStmt.values, or the
\* call of displayProvider after it
execDisplay(m, f, rest, shouldStop) ==
    LET values == f.stmt.values
    IN  IF f.i > Len(values)
        THEN LET evaluatedValues == SubSeq(m.vs, Len(m.vs) - Len(values) + 1, Len(m.vs))
             IN  Log([PopV(m, Len(values)) EXCEPT !.k = rest,
                                                  !.call = [cb |-> "display", arg |-> evaluatedValues]],
                     "display", f.stmt.lineNumber, evaluatedValues)
        ELSE IF checkStopSignal(shouldStop) THEN Throw([m EXCEPT !.k = rest], ProgramStoppedError)
        ELSE IF values[f.i].type = "TAP_MARKER"
             THEN PushV([m EXCEPT !.k = <<[f EXCEPT !.i = @ + 1]>> \o rest], StrV("    "))
             ELSE [m EXCEPT !.k = <<Eval(values[f.i]), [f EXCEPT !.i = @ + 1]>> \o rest]

InputPrompt(identifier, dataType) == "Enter a value for " \o identifier \o " (" \o dataType \o "):"

\* INPUT_STATEMENT: the lookup before the loop
execInputStart(m, stmt, rest) ==
    LET inputVarEntry == getEntry(m, m.environment, stmt.identifier)
    IN  IF inputVarEntry = 0 THEN Throw([m EXCEPT !.k = rest], NotFound(stmt.identifier, stmt.lineNumber))
        ELSE [m EXCEPT !.k = <<[f |-> "input", stmt |-> stmt, inputVarEntry |-> inputVarEntry]>> \o rest]

\* INPUT_STATEMENT: the head of the while (!validInput) loop, up to the
\* await of inputProvider
execInput(m, f, rest, shouldStop) ==
    IF checkStopSignal(shouldStop) THEN Throw([m EXCEPT !.k = rest], ProgramStoppedError)
    ELSE LET prompt == InputPrompt(f.stmt.identifier, m.slots[f.inputVarEntry].dataType)
         IN  Log([m EXCEPT !.status = "awaiting", !.call = [cb |-> "input", arg |-> prompt]],
                 "input", f.stmt.lineNumber, prompt)

\* A reply of the host: null (cancelled) or a line of text.
NullInput == [isNull |-> TRUE, text |-> <<>>]
Line(text) == [isNull |-> FALSE, text |-> text]

\* A variant of execInputResolved that does not poll the stop flag on a
\* null input.
execInputResolvedNoPoll(m, f, rest, shouldStop) ==
    LET rawInput == f.rawInput
        dataType == m.slots[f.inputVarEntry].dataType
        done == [m EXCEPT !.k = rest]
        again == [m EXCEPT !.k = <<[f |-> "input", stmt |-> f.stmt, inputVarEntry |-> f.inputVarEntry]>>
                                  \o rest]
    IN  IF rawInput.isNull
        THEN LET line == <<StrV("Input for " \o f.stmt.identifier \o " cancelled.")>>
             IN  Log([done EXCEPT !.call = [cb |-> "display", arg |-> line]],
                     "display", f.stmt.lineNumber, line)
        ELSE LET validationResult == validateAndParseInput(rawInput.text, dataType)
             IN  IF validationResult.isValid
                 THEN LET r == assign(done, done.environment, f.stmt.identifier, validationResult.value,
                                      f.stmt.lineNumber)
                      IN  IF r.err # NoError THEN Throw(done, r.err)
                          ELSE Log(r.m, "assign", f.stmt.lineNumber, f.stmt.identifier)
                 ELSE LET line == <<StrV("Invalid input. Please enter a valid " \o dataType \o ".")>>
                      IN  Log([again EXCEPT !.call = [cb |-> "display", arg |-> line]],
                              "display", f.stmt.lineNumber, line)

\* A variant of execInputResolved that, on a null input, displays the
\* cancellation message and asks again.
execInputResolvedAsksAgain(m, f, rest, shouldStop) ==
    LET rawInput == f.rawInput
        dataType == m.slots[f.inputVarEntry].dataType
        done == [m EXCEPT !.k = rest]
        again == [m EXCEPT !.k = <<[f |-> "input", stmt |-> f.stmt, inputVarEntry |-> f.inputVarEntry]>>
                                  \o rest]
    IN  IF rawInput.isNull
        THEN IF checkStopSignal(shouldStop) THEN Throw(done, ProgramStoppedError)
             ELSE LET line == <<StrV("Input for " \o f.stmt.identifier \o " cancelled.")>>
                  IN  Log([again EXCEPT !.call = [cb |-> "display", arg |-> line]],
                          "display", f.stmt.lineNumber, line)
        ELSE LET validationResult == validateAndParseInput(rawInput.text, dataType)
             IN  IF validationResult.isValid
                 THEN LET r == assign(done, done.environment, f.stmt.identifier, validationResult.value,
                                      f.stmt.lineNumber)
                      IN  IF r.err # NoError THEN Throw(done, r.err)
                          ELSE Log(r.m, "assign", f.stmt.lineNumber, f.stmt.identifier)
                 ELSE LET line == <<StrV("Invalid input. Please enter a valid " \o dataType \o ".")>>
                      IN  Log([again EXCEPT !.call = [cb |-> "display", arg |-> line]],
                              "display", f.stmt.lineNumber, line)

\* INPUT_STATEMENT: the loop body after the inputProvider promise resolved
\* with f.rawInput
execInputResolved(m, f, rest, shouldStop) ==
    LET rawInput == f.rawInput
        dataType == m.slots[f.inputVarEntry].dataType
        done == [m EXCEPT !.k = rest]
        again == [m EXCEPT !.k = <<[f |-> "input", stmt |-> f.stmt, inputVarEntry |-> f.inputVarEntry]>>
                                  \o rest]
    IN  IF rawInput.isNull
        THEN IF checkStopSignal(shouldStop) THEN Throw(done, ProgramStoppedError)
             ELSE LET line == <<StrV("Input for " \o f.stmt.identifier \o " cancelled.")>>
                  IN  Log([done EXCEPT !.call = [cb |-> "display", arg |-> line]],
                          "display", f.stmt.lineNumber, line)
        ELSE LET validationResult == validateAndParseInput(rawInput.text, dataType)
             IN  IF validationResult.isValid
                 THEN LET r == assign(done, done.environment, f.stmt.identifier, validationResult.value,
                                      f.stmt.lineNumber)
                      IN  IF r.err # NoError THEN Throw(done, r.err)
                          ELSE Log(r.m, "assign", f.stmt.lineNumber, f.stmt.identifier)
                 ELSE LET line == <<StrV("Invalid input. Please enter a valid " \o dataType \o ".")>>
                      IN  Log([again EXCEPT !.call = [cb |-> "display", arg |-> line]],
                              "display", f.stmt.lineNumber, line)

\* IF_STATEMENT after await this.evaluate(ifStmt.condition)
execIf(m, f, rest) ==
    LET condition == TopV(m, 0)
        m1 == PopV(m, 1)
        fresh == NewEnvironment(m1, m1.environment)
    IN  IF Truthy(condition) THEN EnterBlock(fresh, f.stmt.thenBranch, Len(fresh.envs), rest)
        ELSE IF f.stmt.hasElse THEN EnterBlock(fresh, f.stmt.elseBranch, Len(fresh.envs), rest)
        ELSE [m1 EXCEPT !.k = rest]

\* DO_WHILE_STATEMENT / DO_UNTIL_STATEMENT: the body of the do loop; the
\* condition is evaluated when the block has run
execDoBody(m, f, rest, shouldStop) ==
    IF checkStopSignal(shouldStop) THEN Throw([m EXCEPT !.k = rest], ProgramStoppedError)
    ELSE LET fresh == NewEnvironment(m, m.environment)
         IN  EnterBlock(fresh, f.stmt.body, Len(fresh.envs),
                        <<Eval(f.stmt.condition), [f |-> "doTest", stmt |-> f.stmt]>> \o rest)

\* DO_WHILE_STATEMENT / DO_UNTIL_STATEMENT: the loop test
execDoTest(m, f, rest) ==
    LET again == IF f.stmt.type = "DO_WHILE_STATEMENT" THEN Truthy(TopV(m, 0)) ELSE ~Truthy(TopV(m, 0))
    IN  [PopV(m, 1) EXCEPT !.k = IF again THEN <<[f |-> "doBody", stmt |-> f.stmt]>> \o rest ELSE rest]

\* WHILE_STATEMENT after await this.evaluate(whileStmt.condition)
execWhileTest(m, f, rest, shouldStop) ==
    LET m1 == PopV(m, 1)
    IN  IF ~Truthy(TopV(m, 0)) THEN [m1 EXCEPT !.k = rest]
        ELSE IF checkStopSignal(shouldStop) THEN Throw([m1 EXCEPT !.k = rest], ProgramStoppedError)
        ELSE LET fresh == NewEnvironment(m1, m1.environment)
             IN  EnterBlock(fresh, f.stmt.body, Len(fresh.envs),
                            <<Eval(f.stmt.condition), [f |-> "whileTest", stmt |-> f.stmt]>> \o rest)

\* A variant of execForInit that takes a variable in scope with the
\* counter's name as the counter, and defines one only when there is none.
execForInitOuter(m, f, rest) ==
    LET start == TopV(m, 1)
        end == TopV(m, 0)
        m1 == PopV(m, 2)
    IN  IF ~IsNumber(start) \/ ~IsNumber(end)
        THEN Throw([m1 EXCEPT !.k = rest],
                   InterpreterError("For loop bounds must be numbers", f.stmt.lineNumber))
        ELSE LET r == IF getEntry(m1, f.scope, f.stmt.identifier) # 0
                      THEN assign(m1, f.scope, f.stmt.identifier, start, f.stmt.lineNumber)
                      ELSE define(m1, f.scope, f.stmt.identifier, FALSE, "Real", start)
             IN  Log([r.m EXCEPT !.k = <<[f |-> "for", stmt |-> f.stmt, scope |-> f.scope,
                                          i |-> start.n, end |-> end.n]>> \o rest],
                     "define", f.stmt.lineNumber, f.stmt.identifier)

\* FOR_STATEMENT after the awaits of start and end: the bounds check and
\* scope.define
execForInit(m, f, rest) ==
    LET start == TopV(m, 1)
        end == TopV(m, 0)
        m1 == PopV(m, 2)
    IN  IF ~IsNumber(start) \/ ~IsNumber(end)
        THEN Throw([m1 EXCEPT !.k = rest],
                   InterpreterError("For loop bounds must be numbers", f.stmt.lineNumber))
        ELSE LET r == define(m1, f.scope, f.stmt.identifier, FALSE, "Real", start)
             IN  Log([r.m EXCEPT !.k = <<[f |-> "for", stmt |-> f.stmt, scope |-> f.scope,
                                          i |-> start.n, end |-> end.n]>> \o rest],
                     "define", f.stmt.lineNumber, f.stmt.identifier)

\* A variant of execFor whose loop variable is the counter variable: the
\* pass that follows one that left the counter at v is the pass of v + 1.
execForByCounter(m, f, rest, shouldStop) ==
    LET counter == m.slots[getEntry(m, f.scope, f.stmt.identifier)].value.n
        first == m.trace[Len(m.trace)] = Event("define", f.stmt.lineNumber, f.stmt.identifier)
        i == IF first THEN f.i ELSE counter + 1
    IN  IF ~(i <= f.end) THEN Release([m EXCEPT !.k = rest], f.scope)
        ELSE IF checkStopSignal(shouldStop) THEN Throw([m EXCEPT !.k = rest], ProgramStoppedError)
        ELSE LET r == assign(m, f.scope, f.stmt.identifier, NumV(i), f.stmt.lineNumber)
                 fresh == NewEnvironment(r.m, f.scope)
             IN  EnterBlock(Log(fresh, "assign", f.stmt.lineNumber, f.stmt.identifier),
                            f.stmt.body, Len(fresh.envs), <<[f EXCEPT !.i = i + 1]>> \o rest)

\* FOR_STATEMENT: for (let i = start; i <= end; i++) { ... }
execFor(m, f, rest, shouldStop) ==
    IF ~(f.i <= f.end) THEN Release([m EXCEPT !.k = rest], f.scope)
    ELSE IF checkStopSignal(shouldStop) THEN Throw([m EXCEPT !.k = rest], ProgramStoppedError)
    ELSE LET r == assign(m, f.scope, f.stmt.identifier, NumV(f.i), f.stmt.lineNumber)
             fresh == NewEnvironment(r.m, f.scope)
         IN  EnterBlock(Log(fresh, "assign", f.stmt.lineNumber, f.stmt.identifier),
                        f.stmt.body, Len(fresh.envs), <<[f EXCEPT !.i = @ + 1]>> \o rest)

(***************************************************************************)
(* executeCallGenerator                                                    *)
(***************************************************************************)
\* A variant of CalleeEnclosing: the callee's Environment is enclosed by
\* the caller's.
CallerEnclosing(m) == m.environment

\* the enclosing scope of a callee's Environment: this.globals
CalleeEnclosing(m) == 1

\* A variant of executeCallGenerator that accepts arguments in excess.
executeCallGeneratorAtLeast(m, f, rest) ==
    IF Len(f.args) < Len(f.callee.parameters)
    THEN Throw([m EXCEPT !.k = rest],
               InterpreterError("Expected " \o ToString(Len(f.callee.parameters)) \o " arguments but got "
                                    \o ToString(Len(f.args)) \o ".", f.lineNumber))
    ELSE LET m1 == NewEnvironment(m, CalleeEnclosing(m))
         IN  [m1 EXCEPT !.k = <<[f |-> "bind", callee |-> f.callee, args |-> f.args,
                                 lineNumber |-> f.lineNumber, calleeEnv |-> Len(m1.envs), i |-> 1]>>
                               \o rest]

\* up to the parameter loop
executeCallGenerator(m, f, rest) ==
    IF Len(f.args) # Len(f.callee.parameters)
    THEN Throw([m EXCEPT !.k = rest],
               InterpreterError("Expected " \o ToString(Len(f.callee.parameters)) \o " arguments but got "
                                    \o ToString(Len(f.args)) \o ".", f.lineNumber))
    ELSE LET m1 == NewEnvironment(m, CalleeEnclosing(m))
         IN  [m1 EXCEPT !.k = <<[f |-> "bind", callee |-> f.callee, args |-> f.args,
                                 lineNumber |-> f.lineNumber, calleeEnv |-> Len(m1.envs), i |-> 1]>>
                               \o rest]

\* A variant of bindReference that gives the callee an entry of its own,
\* holding a copy of the caller's value.
bindReferenceByCopy(m, f, rest) ==
    LET param == f.callee.parameters[f.i]
        arg == f.args[f.i]
        m1 == [m EXCEPT !.k = rest]
    IN  IF arg.type # "IDENTIFIER"
        THEN Throw(m1, InterpreterError("Argument for reference parameter \"" \o param.name
                                            \o "\" must be a variable.", f.lineNumber))
        ELSE LET valueEntry == getEntry(m, m.environment, arg.name)
             IN  IF valueEntry = 0 THEN Throw(m1, NotFound(arg.name, f.lineNumber))
                 ELSE LET r == define(m, f.calleeEnv, param.name, FALSE, param.dataType,
                                      m.slots[valueEntry].value)
                      IN  IF r.err # NoError THEN Throw(m1, r.err)
                          ELSE [r.m EXCEPT !.k = <<[f EXCEPT !.i = @ + 1]>> \o rest]

\* a by-reference parameter: the callee's Map entry is the caller's object
bindReference(m, f, rest) ==
    LET param == f.callee.parameters[f.i]
        arg == f.args[f.i]
        m1 == [m EXCEPT !.k = rest]
    IN  IF arg.type # "IDENTIFIER"
        THEN Throw(m1, InterpreterError("Argument for reference parameter \"" \o param.name
                                            \o "\" must be a variable.", f.lineNumber))
        ELSE LET valueEntry == getEntry(m, m.environment, arg.name)
             IN  IF valueEntry = 0 THEN Throw(m1, NotFound(arg.name, f.lineNumber))
                 ELSE LET r == defineReference(m, f.calleeEnv, param.name, valueEntry)
                      IN  IF r.err # NoError THEN Throw(m1, r.err)
                          ELSE [r.m EXCEPT !.k = <<[f EXCEPT !.i = @ + 1]>> \o rest]

\* one turn of the parameter loop up to its await, or the yield* of the body
executeCallBind(m, f, rest) ==
    IF f.i > Len(f.callee.parameters) THEN EnterBlock(m, f.callee.body, f.calleeEnv, rest)
    ELSE IF f.callee.parameters[f.i].isReference THEN bindReference(m, f, rest)
    ELSE [m EXCEPT !.k = <<Eval(f.args[f.i]), [f EXCEPT !.f = "bindValue"]>> \o rest]

\* a by-value parameter after await this.evaluate(arg)
executeCallBindValue(m, f, rest) ==
    LET param == f.callee.parameters[f.i]
        arg == f.args[f.i]
        argValue == TopV(m, 0)
        m1 == PopV(m, 1)
        thrown == [m1 EXCEPT !.k = rest]
        Bound(paramDataType) ==
            LET r == define(m1, f.calleeEnv, param.name, FALSE, paramDataType, argValue)
            IN  IF r.err # NoError THEN Throw(thrown, r.err)
                ELSE Log([r.m EXCEPT !.k = <<[f EXCEPT !.f = "bind", !.i = @ + 1]>> \o rest],
                         "define", f.lineNumber, param.name)
    IN  IF param.dataType # "auto" THEN Bound(param.dataType)
        ELSE IF arg.type # "IDENTIFIER"
             \* (arg as Identifier).name is undefined: name.toLowerCase() throws a TypeError
             THEN Throw(thrown, [kind |-> "TypeError",
                                 message |-> "Cannot read properties of undefined (reading 'toLowerCase')",
                                 lineNumber |-> 0, value |-> NullV])
             ELSE LET originalEntry == getEntry(m1, m1.environment, arg.name)
                  IN  IF originalEntry = 0 THEN Throw(thrown, NotFound(arg.name, arg.lineNumber))
                      ELSE Bound(m1.slots[originalEntry].dataType)

\* the switch of executeStatementGenerator, entered after the yield
executeStatement(m, f, rest, stmts) ==
    LET stmt == f.stmt
        m1 == IF InFunctionCall(rest) THEN m ELSE Log(m, "exec", stmt.lineNumber, <<>>)
    IN  CASE stmt.type = "VARIABLE_DECLARATION" ->
                [m1 EXCEPT !.k = <<[f |-> "declare", stmt |-> stmt, i |-> 1]>> \o rest]
          [] stmt.type = "ASSIGNMENT" ->
                [m1 EXCEPT !.k = <<Eval(stmt.value), [f |-> "assign", stmt |-> stmt]>> \o rest]
          [] stmt.type = "DISPLAY_STATEMENT" ->
                [m1 EXCEPT !.k = <<[f |-> "display", stmt |-> stmt, i |-> 1]>> \o rest]
          [] stmt.type = "INPUT_STATEMENT" -> execInputStart(m1, stmt, rest)
          [] stmt.type = "IF_STATEMENT" ->
                [m1 EXCEPT !.k = <<Eval(stmt.condition), [f |-> "if", stmt |-> stmt]>> \o rest]
          [] stmt.type \in {"DO_WHILE_STATEMENT", "DO_UNTIL_STATEMENT"} ->
                [m1 EXCEPT !.k = <<[f |-> "doBody", stmt |-> stmt]>> \o rest]
          [] stmt.type = "WHILE_STATEMENT" ->
                [m1 EXCEPT !.k = <<Eval(stmt.condition), [f |-> "whileTest", stmt |-> stmt]>> \o rest]
          [] stmt.type = "FOR_STATEMENT" ->
                LET m2 == NewEnvironment(m1, m1.environment)
                IN  [m2 EXCEPT !.k = <<Eval(stmt.start), Eval(stmt.end),
                                       [f |-> "forInit", stmt |-> stmt, scope |-> Len(m2.envs)]>> \o rest]
          [] stmt.type = "CALL_STATEMENT" ->
                IF ~IsDeclared(stmts, "MODULE_STATEMENT", toLowerCase(stmt.name))
                THEN Throw([m1 EXCEPT !.k = rest],
                           InterpreterError("Module \"" \o stmt.name \o "\" not found.", stmt.lineNumber))
                ELSE [m1 EXCEPT !.k = <<[f |-> "call",
                                         callee |-> Declared(stmts, "MODULE_STATEMENT", toLowerCase(stmt.name)),
                                         args |-> stmt.args, lineNumber |-> stmt.lineNumber]>> \o rest]
          [] stmt.type = "RETURN_STATEMENT" ->
                [m1 EXCEPT !.k = <<Eval(stmt.value), [f |-> "return"]>> \o rest]
          [] stmt.type \in {"FUNCTION_DECLARATION", "MODULE_STATEMENT"} -> [m1 EXCEPT !.k = rest]
          [] OTHER -> Throw([m1 EXCEPT !.k = rest], InterpreterError("Unknown statement type", 1))

\* A variant of execReturn that leaves the value behind and lets the body
\* go on.
execReturnFallThrough(m, f, rest) == [m EXCEPT !.k = rest]

\* RETURN_STATEMENT after await this.evaluate(returnStmt.value)
execReturn(m, f, rest) == Throw(PopV([m EXCEPT !.k = rest], 1), ReturnError(TopV(m, 0)))


(***************************************************************************)
(* The catalogue of programs: the Parser's output for each source text,    *)
(* by name.                                                                *)
(***************************************************************************)
Programs ==
    LET Num(n, line) == Literal(NumV(n), line)
        Str(t, line) == Literal(StrV(t), line)

        \*  1 Module main()
        \*  2    Declare Integer x = 1
        \*  3    Set x = x + 1
        \*  4    Set x = x * 2
        \*  5    Display x
        \*  6 End Module
        StepCountProgram == <<
            ModuleStatement("main", <<>>, <<
                VariableDeclaration("integer", FALSE, <<DeclaratorInit("x", Num(1, 2))>>, 2),
                Assignment(Identifier("x", 3), BinaryExpression(Identifier("x", 3), "+", Num(1, 3), 3), 3),
                Assignment(Identifier("x", 4), BinaryExpression(Identifier("x", 4), "*", Num(2, 4), 4), 4),
                DisplayStatement(<<Identifier("x", 5)>>, 5) >>, 1) >>

        \*  1 Module swap(Ref Integer x, Ref Integer y)
        \*  2    Declare Integer t
        \*  3    Set t = x
        \*  4    Set x = y
        \*  5    Set y = t
        \*  6 End Module
        \*  7 Module main()
        \*  8    Declare Integer a = 1, b = 2
        \*  9    Call swap(a, b)
        \* 10    Display a, " ", b
        \* 11 End Module
        SwapProgram == <<
            ModuleStatement("swap", <<Parameter("x", "integer", TRUE), Parameter("y", "integer", TRUE)>>, <<
                VariableDeclaration("integer", FALSE, <<Declarator("t")>>, 2),
                Assignment(Identifier("t", 3), Identifier("x", 3), 3),
                Assignment(Identifier("x", 4), Identifier("y", 4), 4),
                Assignment(Identifier("y", 5), Identifier("t", 5), 5) >>, 1),
            ModuleStatement("main", <<>>, <<
                VariableDeclaration("integer", FALSE,
                                    <<DeclaratorInit("a", Num(1, 8)), DeclaratorInit("b", Num(2, 8))>>, 8),
                CallStatement("swap", <<Identifier("a", 9), Identifier("b", 9)>>, 9),
                DisplayStatement(<<Identifier("a", 10), Str(" ", 10), Identifier("b", 10)>>, 10) >>, 7) >>

        \*  1 Module getFeet(Integer Ref inputFeet)
        \*  2    Input inputFeet
        \*  3 End Module
        \*  4 Module relay(Ref Integer v)
        \*  5    Call getFeet(v)
        \*  6    Set v = v + 1
        \*  7 End Module
        \*  8 Module main()
        \*  9    Declare Integer feet = 0
        \* 10    Call relay(feet)
        \* 11    Display feet
        \* 12 End Module
        RefInputProgram == <<
            ModuleStatement("getFeet", <<Parameter("inputFeet", "integer", TRUE)>>, <<
                InputStatement("inputFeet", 2) >>, 1),
            ModuleStatement("relay", <<Parameter("v", "integer", TRUE)>>, <<
                CallStatement("getFeet", <<Identifier("v", 5)>>, 5),
                Assignment(Identifier("v", 6), BinaryExpression(Identifier("v", 6), "+", Num(1, 6), 6), 6) >>, 4),
            ModuleStatement("main", <<>>, <<
                VariableDeclaration("integer", FALSE, <<DeclaratorInit("feet", Num(0, 9))>>, 9),
                CallStatement("relay", <<Identifier("feet", 10)>>, 10),
                DisplayStatement(<<Identifier("feet", 11)>>, 11) >>, 8) >>

        \*  1 Function Integer f(Integer n)
        \*  2    If n == 0 Then
        \*  3       Return 1
        \*  4    Else
        \*  5       Return n * f(n - 1)
        \*  6    End If
        \*  7 End Function
        \*  8 Module main()
        \*  9    Display f(2)
        \* 10 End Module
        FactorialProgram == <<
            FunctionDeclaration("f", "integer", <<Parameter("n", "integer", FALSE)>>, <<
                IfElseStatement(BinaryExpression(Identifier("n", 2), "==", Num(0, 2), 2),
                    <<ReturnStatement(Num(1, 3), 3)>>,
                    <<ReturnStatement(
                        BinaryExpression(Identifier("n", 5), "*",
                            FunctionCall("f", <<BinaryExpression(Identifier("n", 5), "-", Num(1, 5), 5)>>, 5), 5),
                        5)>>, 2) >>, 1),
            ModuleStatement("main", <<>>, <<
                DisplayStatement(<<FunctionCall("f", <<Num(2, 9)>>, 9)>>, 9) >>, 8) >>

        \*  1 Declare Integer g = 1
        \*  2 Module showY()
        \*  3    Set g = g + 1
        \*  4    Display y
        \*  5 End Module
        \*  6 Module main()
        \*  7    Declare Integer y = 5
        \*  8    Call showY()
        \*  9    Display y
        \* 10 End Module
        ScopeReadProgram == <<
            VariableDeclaration("integer", FALSE, <<DeclaratorInit("g", Num(1, 1))>>, 1),
            ModuleStatement("showY", <<>>, <<
                Assignment(Identifier("g", 3), BinaryExpression(Identifier("g", 3), "+", Num(1, 3), 3), 3),
                DisplayStatement(<<Identifier("y", 4)>>, 4) >>, 2),
            ModuleStatement("main", <<>>, <<
                VariableDeclaration("integer", FALSE, <<DeclaratorInit("y", Num(5, 7))>>, 7),
                CallStatement("showY", <<>>, 8),
                DisplayStatement(<<Identifier("y", 9)>>, 9) >>, 6) >>

        \*  1 Module poke()
        \*  2    Declare Integer z = 3
        \*  3    Set y = 9
        \*  4 End Module
        \*  5 Module main()
        \*  6    Declare Integer y = 5
        \*  7    Call poke()
        \*  8 End Module
        ScopeWriteProgram == <<
            ModuleStatement("poke", <<>>, <<
                VariableDeclaration("integer", FALSE, <<DeclaratorInit("z", Num(3, 2))>>, 2),
                Assignment(Identifier("y", 3), Num(9, 3), 3) >>, 1),
            ModuleStatement("main", <<>>, <<
                VariableDeclaration("integer", FALSE, <<DeclaratorInit("y", Num(5, 6))>>, 6),
                CallStatement("poke", <<>>, 7) >>, 5) >>

        \*  1 Function Integer twice(Integer n)
        \*  2    Declare Integer y = n * 2
        \*  3    Return y
        \*  4 End Function
        \*  5 Module main()
        \*  6    Declare Integer y = 5
        \*  7    Declare Integer r = twice(y)
        \*  8    Display y, r
        \*  9 End Module
        ScopeShadowProgram == <<
            FunctionDeclaration("twice", "integer", <<Parameter("n", "integer", FALSE)>>, <<
                VariableDeclaration("integer", FALSE,
                    <<DeclaratorInit("y", BinaryExpression(Identifier("n", 2), "*", Num(2, 2), 2))>>, 2),
                ReturnStatement(Identifier("y", 3), 3) >>, 1),
            ModuleStatement("main", <<>>, <<
                VariableDeclaration("integer", FALSE, <<DeclaratorInit("y", Num(5, 6))>>, 6),
                VariableDeclaration("integer", FALSE,
                    <<DeclaratorInit("r", FunctionCall("twice", <<Identifier("y", 7)>>, 7))>>, 7),
                DisplayStatement(<<Identifier("y", 8), Identifier("r", 8)>>, 8) >>, 5) >>

        \*  1 Module main()
        \*  2    Declare Integer i = 0
        \*  3    While i < 2
        \*  4       Declare Integer t = i
        \*  5       Set i = i + 1
        \*  6    End While
        \*  7    If i == 2 Then
        \*  8       Declare Integer t = 7
        \*  9       Set i = i + t
        \* 10    End If
        \* 11    Display i
        \* 12    Display t
        \* 13 End Module
        BlocksProgram == <<
            ModuleStatement("main", <<>>, <<
                VariableDeclaration("integer", FALSE, <<DeclaratorInit("i", Num(0, 2))>>, 2),
                WhileStatement(BinaryExpression(Identifier("i", 3), "<", Num(2, 3), 3), <<
                    VariableDeclaration("integer", FALSE, <<DeclaratorInit("t", Identifier("i", 4))>>, 4),
                    Assignment(Identifier("i", 5), BinaryExpression(Identifier("i", 5), "+", Num(1, 5), 5), 5) >>, 3),
                IfStatement(BinaryExpression(Identifier("i", 7), "==", Num(2, 7), 7), <<
                    VariableDeclaration("integer", FALSE, <<DeclaratorInit("t", Num(7, 8))>>, 8),
                    Assignment(Identifier("i", 9),
                               BinaryExpression(Identifier("i", 9), "+", Identifier("t", 9), 9), 9) >>, 7),
                DisplayStatement(<<Identifier("i", 11)>>, 11),
                DisplayStatement(<<Identifier("t", 12)>>, 12) >>, 1) >>

        \*  1 Function Integer find(Integer limit)
        \*  2    Declare Integer k
        \*  3    For k = 1 To limit
        \*  4       Declare Integer t = k * k
        \*  5       If t >= 4 Then
        \*  6          Return k
        \*  7       End If
        \*  8    End For
        \*  9    Return 0
        \* 10 End Function
        \* 11 Module main()
        \* 12    Declare Integer t = 7
        \* 13    Display find(3), t
        \* 14 End Module
        ForReturnProgram == <<
            FunctionDeclaration("find", "integer", <<Parameter("limit", "integer", FALSE)>>, <<
                VariableDeclaration("integer", FALSE, <<Declarator("k")>>, 2),
                ForStatement("k", Num(1, 3), Identifier("limit", 3), <<
                    VariableDeclaration("integer", FALSE,
                        <<DeclaratorInit("t", BinaryExpression(Identifier("k", 4), "*", Identifier("k", 4), 4))>>, 4),
                    IfStatement(BinaryExpression(Identifier("t", 5), ">=", Num(4, 5), 5),
                                <<ReturnStatement(Identifier("k", 6), 6)>>, 5) >>, 3),
                ReturnStatement(Num(0, 9), 9) >>, 1),
            ModuleStatement("main", <<>>, <<
                VariableDeclaration("integer", FALSE, <<DeclaratorInit("t", Num(7, 12))>>, 12),
                DisplayStatement(<<FunctionCall("find", <<Num(3, 13)>>, 13), Identifier("t", 13)>>, 13) >>, 11) >>

        \*  1 Declare Integer n = 0
        \*  2 Declare Integer total = 0
        \*  3 Do
        \*  4    Input n
        \*  5    Declare Integer twice = n * 2
        \*  6    Set total = total + twice
        \*  7 Until n > 5
        \*  8 For n = 1 To 2
        \*  9    Declare Integer sq = n * n
        \* 10    Set total = total + sq
        \* 11 End For
        \* 12 Display total
        DoUntilInputProgram == <<
            VariableDeclaration("integer", FALSE, <<DeclaratorInit("n", Num(0, 1))>>, 1),
            VariableDeclaration("integer", FALSE, <<DeclaratorInit("total", Num(0, 2))>>, 2),
            DoUntilStatement(<<
                InputStatement("n", 4),
                VariableDeclaration("integer", FALSE,
                    <<DeclaratorInit("twice", BinaryExpression(Identifier("n", 5), "*", Num(2, 5), 5))>>, 5),
                Assignment(Identifier("total", 6),
                           BinaryExpression(Identifier("total", 6), "+", Identifier("twice", 6), 6), 6) >>,
                BinaryExpression(Identifier("n", 7), ">", Num(5, 7), 7), 3),
            ForStatement("n", Num(1, 8), Num(2, 8), <<
                VariableDeclaration("integer", FALSE,
                    <<DeclaratorInit("sq", BinaryExpression(Identifier("n", 9), "*", Identifier("n", 9), 9))>>, 9),
                Assignment(Identifier("total", 10),
                           BinaryExpression(Identifier("total", 10), "+", Identifier("sq", 10), 10), 10) >>, 8),
            DisplayStatement(<<Identifier("total", 12)>>, 12) >>

        \*  1 Module main()
        \*  2    Declare Integer x = 0
        \*  3    While 1 == 1
        \*  4       Display x
        \*  5    End While
        \*  6 End Module
        InfiniteLoopProgram == <<
            ModuleStatement("main", <<>>, <<
                VariableDeclaration("integer", FALSE, <<DeclaratorInit("x", Num(0, 2))>>, 2),
                WhileStatement(BinaryExpression(Num(1, 3), "==", Num(1, 3), 3), <<
                    DisplayStatement(<<Identifier("x", 4)>>, 4) >>, 3) >>, 1) >>

        \*  1 Declare Integer x = 1
        \*  2 Set x = x + q
        \*  3 Display x
        ErrorLaterProgram == <<
            VariableDeclaration("integer", FALSE, <<DeclaratorInit("x", Num(1, 1))>>, 1),
            Assignment(Identifier("x", 2), BinaryExpression(Identifier("x", 2), "+", Identifier("q", 2), 2), 2),
            DisplayStatement(<<Identifier("x", 3)>>, 3) >>

        \*  1 Module helper()
        \*  2    Display 1
        \*  3 End Module
        NoMainProgram == <<
            ModuleStatement("helper", <<>>, <<DisplayStatement(<<Num(1, 2)>>, 2)>>, 1) >>

        \*  1 Module note(Integer v)
        \*  2    Display v
        \*  3 End Module
        \*  4 Function Integer h(Integer n)
        \*  5    Call note(n)
        \*  6    Return n + 1
        \*  7 End Function
        \*  8 Module main()
        \*  9    Declare Integer r
        \* 10    Set r = h(1)
        \* 11    Display r
        \* 12 End Module
        AbsorbedProgram == <<
            ModuleStatement("note", <<Parameter("v", "integer", FALSE)>>, <<
                DisplayStatement(<<Identifier("v", 2)>>, 2) >>, 1),
            FunctionDeclaration("h", "integer", <<Parameter("n", "integer", FALSE)>>, <<
                CallStatement("note", <<Identifier("n", 5)>>, 5),
                ReturnStatement(BinaryExpression(Identifier("n", 6), "+", Num(1, 6), 6), 6) >>, 4),
            ModuleStatement("main", <<>>, <<
                VariableDeclaration("integer", FALSE, <<Declarator("r")>>, 9),
                Assignment(Identifier("r", 10), FunctionCall("h", <<Num(1, 10)>>, 10), 10),
                DisplayStatement(<<Identifier("r", 11)>>, 11) >>, 8) >>

        \*  1 Function Integer abs(Integer n)
        \*  2    Return 0
        \*  3 End Function
        \*  4 Declare Integer v = abs(-3)
        \*  5 Display v, length("ab"), Not v
        BuiltInProgram == <<
            FunctionDeclaration("abs", "integer", <<Parameter("n", "integer", FALSE)>>, <<
                ReturnStatement(Num(0, 2), 2) >>, 1),
            VariableDeclaration("integer", FALSE,
                <<DeclaratorInit("v", FunctionCall("abs", <<UnaryExpression("-", Num(3, 4), 4)>>, 4))>>, 4),
            DisplayStatement(<<Identifier("v", 5), FunctionCall("length", <<Str("ab", 5)>>, 5),
                               UnaryExpression("not", Identifier("v", 5), 5)>>, 5) >>

        \*  1 Function String first(String s)
        \*  2    Return s
        \*  3 End Function
        \*  4 Function String second(String s)
        \*  5    Return s
        \*  6 End Function
        \*  7 Display append(first("a"), second("b"))
        \*  8 Display s
        ConcurrentProgram == <<
            FunctionDeclaration("first", "string", <<Parameter("s", "string", FALSE)>>, <<
                ReturnStatement(Identifier("s", 2), 2) >>, 1),
            FunctionDeclaration("second", "string", <<Parameter("s", "string", FALSE)>>, <<
                ReturnStatement(Identifier("s", 5), 5) >>, 4),
            DisplayStatement(<<FunctionCall("append", <<FunctionCall("first", <<Str("a", 7)>>, 7),
                                                        FunctionCall("second", <<Str("b", 7)>>, 7)>>, 7)>>, 7),
            DisplayStatement(<<Identifier("s", 8)>>, 8) >>

        \*  1 Declare Integer d = 0
        \*  2 If d != 0 And 10 / d > 1 Then
        \*  3    Display "big"
        \*  4 End If
        \*  5 Display 0 Or 5
        ShortCircuitProgram == <<
            VariableDeclaration("integer", FALSE, <<DeclaratorInit("d", Num(0, 1))>>, 1),
            IfStatement(
                BinaryExpression(
                    BinaryExpression(Identifier("d", 2), "!=", Num(0, 2), 2), "and",
                    BinaryExpression(BinaryExpression(Num(10, 2), "/", Identifier("d", 2), 2), ">",
                                     Num(1, 2), 2), 2),
                <<DisplayStatement(<<Str("big", 3)>>, 3)>>, 2),
            DisplayStatement(<<BinaryExpression(Num(0, 5), "or", Num(5, 5), 5)>>, 5) >>

        \*  1 Declare Integer n = 5
        \*  2 Declare Real r = 6
        \*  3 Input n
        \*  4 Display n
        \*  5 Input r
        \*  6 Display r
        InputRetryProgram == <<
            VariableDeclaration("integer", FALSE, <<DeclaratorInit("n", Num(5, 1))>>, 1),
            VariableDeclaration("real", FALSE, <<DeclaratorInit("r", Num(6, 2))>>, 2),
            InputStatement("n", 3),
            DisplayStatement(<<Identifier("n", 4)>>, 4),
            InputStatement("r", 5),
            DisplayStatement(<<Identifier("r", 6)>>, 6) >>

        \*  1 Constant Integer limit = 10
        \*  2 If limit > 1 Then
        \*  3    Set limit = 11
        \*  4 End If
        \*  5 Display limit
        ConstNestedProgram == <<
            VariableDeclaration("integer", TRUE, <<DeclaratorInit("limit", Num(10, 1))>>, 1),
            IfStatement(BinaryExpression(Identifier("limit", 2), ">", Num(1, 2), 2),
                        <<Assignment(Identifier("limit", 3), Num(11, 3), 3)>>, 2),
            DisplayStatement(<<Identifier("limit", 5)>>, 5) >>

        \*  1 Module bump(Integer Ref v)
        \*  2    Set v = v + 1
        \*  3 End Module
        \*  4 Module main()
        \*  5    Constant Integer limit = 10
        \*  6    Call bump(limit)
        \*  7    Display limit
        \*  8 End Module
        ConstRefProgram == <<
            ModuleStatement("bump", <<Parameter("v", "integer", TRUE)>>, <<
                Assignment(Identifier("v", 2),
                           BinaryExpression(Identifier("v", 2), "+", Num(1, 2), 2), 2) >>, 1),
            ModuleStatement("main", <<>>, <<
                VariableDeclaration("integer", TRUE, <<DeclaratorInit("limit", Num(10, 5))>>, 5),
                CallStatement("bump", <<Identifier("limit", 6)>>, 6),
                DisplayStatement(<<Identifier("limit", 7)>>, 7) >>, 4) >>

        \*  1 Constant Integer limit = 10
        \*  2 Input limit
        \*  3 Display limit
        ConstInputProgram == <<
            VariableDeclaration("integer", TRUE, <<DeclaratorInit("limit", Num(10, 1))>>, 1),
            InputStatement("limit", 2),
            DisplayStatement(<<Identifier("limit", 3)>>, 3) >>

        \*  1 Constant Integer limits[2] = 1, 2
        \*  2 Set limits[0] = 9
        \*  3 Display limits[0]
        ConstArrayProgram == <<
            VariableDeclaration("integer", TRUE,
                <<DeclaratorArray("limits", Num(2, 1), <<Num(1, 1), Num(2, 1)>>, 1)>>, 1),
            Assignment(ArrayAccess(Identifier("limits", 2), Num(0, 2), 2), Num(9, 2), 2),
            DisplayStatement(<<ArrayAccess(Identifier("limits", 3), Num(0, 3), 3)>>, 3) >>

        \*  1 Declare Integer total = 1
        \*  2 Declare Integer Total = 2
        \*  3 Display total
        DupSameProgram == <<
            VariableDeclaration("integer", FALSE, <<DeclaratorInit("total", Num(1, 1))>>, 1),
            VariableDeclaration("integer", FALSE, <<DeclaratorInit("Total", Num(2, 2))>>, 2),
            DisplayStatement(<<Identifier("total", 3)>>, 3) >>

        \*  1 Module show(Integer Ref n)
        \*  2    Declare Integer N = 3
        \*  3    Display n
        \*  4 End Module
        \*  5 Module main()
        \*  6    Declare Integer count = 7
        \*  7    Call show(count)
        \*  8 End Module
        DupParamProgram == <<
            ModuleStatement("show", <<Parameter("n", "integer", TRUE)>>, <<
                VariableDeclaration("integer", FALSE, <<DeclaratorInit("N", Num(3, 2))>>, 2),
                DisplayStatement(<<Identifier("n", 3)>>, 3) >>, 1),
            ModuleStatement("main", <<>>, <<
                VariableDeclaration("integer", FALSE, <<DeclaratorInit("count", Num(7, 6))>>, 6),
                CallStatement("show", <<Identifier("count", 7)>>, 7) >>, 5) >>

        \*  1 Declare Integer x = 1
        \*  2 If x == 1 Then
        \*  3    Declare Integer X = 2
        \*  4    Display X
        \*  5 End If
        \*  6 Display x
        ShadowProgram == <<
            VariableDeclaration("integer", FALSE, <<DeclaratorInit("x", Num(1, 1))>>, 1),
            IfStatement(BinaryExpression(Identifier("x", 2), "==", Num(1, 2), 2), <<
                VariableDeclaration("integer", FALSE, <<DeclaratorInit("X", Num(2, 3))>>, 3),
                DisplayStatement(<<Identifier("X", 4)>>, 4) >>, 2),
            DisplayStatement(<<Identifier("x", 6)>>, 6) >>

        \*  1 Module main()
        \*  2    Display 1
        \*  3    Return 0
        \*  4 End Module
        ReturnMainProgram == <<
            ModuleStatement("main", <<>>, <<
                DisplayStatement(<<Num(1, 2)>>, 2),
                ReturnStatement(Num(0, 3), 3) >>, 1) >>

        \*  1 Declare Integer g = 1
        \*  2 Module helper()
        \*  3    Display "h"
        \*  4 End Module
        \*  5 Module Main()
        \*  6    Display g + h
        \*  7 End Module
        \*  8 Declare Integer h = 2
        GlobalsProgram == <<
            VariableDeclaration("integer", FALSE, <<DeclaratorInit("g", Num(1, 1))>>, 1),
            ModuleStatement("helper", <<>>, <<DisplayStatement(<<Str("h", 3)>>, 3)>>, 2),
            ModuleStatement("Main", <<>>, <<
                DisplayStatement(<<BinaryExpression(Identifier("g", 6), "+", Identifier("h", 6), 6)>>,
                                 6) >>, 5),
            VariableDeclaration("integer", FALSE, <<DeclaratorInit("h", Num(2, 8))>>, 8) >>

        \*  1 Declare Integer s = 0, i
        \*  2 For i = 1 To 5
        \*  3    Set s = s + i
        \*  4 End For
        \*  5 For i = 3 To 1
        \*  6    Set s = 99
        \*  7 End For
        \*  8 Display s
        ForSumProgram == <<
            VariableDeclaration("integer", FALSE, <<DeclaratorInit("s", Num(0, 1)), Declarator("i")>>, 1),
            ForStatement("i", Num(1, 2), Num(5, 2), <<
                Assignment(Identifier("s", 3),
                           BinaryExpression(Identifier("s", 3), "+", Identifier("i", 3), 3), 3) >>, 2),
            ForStatement("i", Num(3, 5), Num(1, 5), <<
                Assignment(Identifier("s", 6), Num(99, 6), 6) >>, 5),
            DisplayStatement(<<Identifier("s", 8)>>, 8) >>

        \*  1 Declare Integer e = 2
        \*  2 For k = 1 To e
        \*  3    Declare Integer t = k
        \*  4    Set e = e + 1
        \*  5    Display t
        \*  6 End For
        \*  7 Display e
        ForOnceProgram == <<
            VariableDeclaration("integer", FALSE, <<DeclaratorInit("e", Num(2, 1))>>, 1),
            ForStatement("k", Num(1, 2), Identifier("e", 2), <<
                VariableDeclaration("integer", FALSE, <<DeclaratorInit("t", Identifier("k", 3))>>, 3),
                Assignment(Identifier("e", 4),
                           BinaryExpression(Identifier("e", 4), "+", Num(1, 4), 4), 4),
                DisplayStatement(<<Identifier("t", 5)>>, 5) >>, 2),
            DisplayStatement(<<Identifier("e", 7)>>, 7) >>

        \*  1 Declare Integer n = 0
        \*  2 For k = 1 To 3
        \*  3    Set n = n + 1
        \*  4    Set k = 10
        \*  5 End For
        \*  6 Display n
        ForAssignProgram == <<
            VariableDeclaration("integer", FALSE, <<DeclaratorInit("n", Num(0, 1))>>, 1),
            ForStatement("k", Num(1, 2), Num(3, 2), <<
                Assignment(Identifier("n", 3),
                           BinaryExpression(Identifier("n", 3), "+", Num(1, 3), 3), 3),
                Assignment(Identifier("k", 4), Num(10, 4), 4) >>, 2),
            DisplayStatement(<<Identifier("n", 6)>>, 6) >>

        \*  1 Function Integer f(Integer n)
        \*  2    If n == 0 Then
        \*  3       Return 1
        \*  4    End If
        \*  5    Declare Integer local = n
        \*  6    Declare Integer sub = f(n - 1)
        \*  7    Return sub * local
        \*  8 End Function
        \*  9 Module main()
        \* 10    Display f(4)
        \* 11 End Module
        RecursiveProgram == <<
            FunctionDeclaration("f", "integer", <<Parameter("n", "integer", FALSE)>>, <<
                IfStatement(BinaryExpression(Identifier("n", 2), "==", Num(0, 2), 2),
                            <<ReturnStatement(Num(1, 3), 3)>>, 2),
                VariableDeclaration("integer", FALSE, <<DeclaratorInit("local", Identifier("n", 5))>>, 5),
                VariableDeclaration("integer", FALSE,
                    <<DeclaratorInit("sub",
                        FunctionCall("f", <<BinaryExpression(Identifier("n", 6), "-", Num(1, 6), 6)>>, 6))>>, 6),
                ReturnStatement(BinaryExpression(Identifier("sub", 7), "*", Identifier("local", 7), 7), 7) >>, 1),
            ModuleStatement("main", <<>>, <<
                DisplayStatement(<<FunctionCall("f", <<Num(4, 10)>>, 10)>>, 10) >>, 9) >>

        \*  1 Module main()
        \*  2    Display "Hello, World!"
        \*  3 End Module
        HelloProgram == <<
            ModuleStatement("main", <<>>, <<DisplayStatement(<<Str("Hello, World!", 2)>>, 2)>>, 1) >>

        \*  1 Declare Integer c = 0
        \*  2 Function Integer next()
        \*  3    Set c = c + 1
        \*  4    Return c
        \*  5 End Function
        \*  6 Module main()
        \*  7    Display next(), Tap, next(), Tap, "x"
        \*  8 End Module
        TappedProgram == <<
            VariableDeclaration("integer", FALSE, <<DeclaratorInit("c", Num(0, 1))>>, 1),
            FunctionDeclaration("next", "integer", <<>>, <<
                Assignment(Identifier("c", 3),
                           BinaryExpression(Identifier("c", 3), "+", Num(1, 3), 3), 3),
                ReturnStatement(Identifier("c", 4), 4) >>, 2),
            ModuleStatement("main", <<>>, <<
                DisplayStatement(<<FunctionCall("next", <<>>, 7), TapMarker,
                                   FunctionCall("next", <<>>, 7), TapMarker, Str("x", 7)>>, 7) >>, 6) >>

        \*  1 Module show(Integer a, Integer b)
        \*  2    Display a
        \*  3 End Module
        \*  4 Module main()
        \*  5    Call show(1)
        \*  6 End Module
        ArityCallProgram == <<
            ModuleStatement("show", <<Parameter("a", "integer", FALSE), Parameter("b", "integer", FALSE)>>, <<
                DisplayStatement(<<Identifier("a", 2)>>, 2) >>, 1),
            ModuleStatement("main", <<>>, <<CallStatement("show", <<Num(1, 5)>>, 5)>>, 4) >>

        \*  1 Function Integer twice(Integer a)
        \*  2    Display a
        \*  3    Return a * 2
        \*  4 End Function
        \*  5 Module main()
        \*  6    Display twice(1, 2)
        \*  7 End Module
        ArityFunctionProgram == <<
            FunctionDeclaration("twice", "integer", <<Parameter("a", "integer", FALSE)>>, <<
                DisplayStatement(<<Identifier("a", 2)>>, 2),
                ReturnStatement(BinaryExpression(Identifier("a", 3), "*", Num(2, 3), 3), 3) >>, 1),
            ModuleStatement("main", <<>>, <<
                DisplayStatement(<<FunctionCall("twice", <<Num(1, 6), Num(2, 6)>>, 6)>>, 6) >>, 5) >>

        \*  1 Module bump(Integer a, Integer Ref x)
        \*  2    Display a
        \*  3    Set x = x + 1
        \*  4 End Module
        \*  5 Module main()
        \*  6    Declare Integer v = 1
        \*  7    Call bump(v, v + 1)
        \*  8 End Module
        RefExpressionProgram == <<
            ModuleStatement("bump", <<Parameter("a", "integer", FALSE), Parameter("x", "integer", TRUE)>>, <<
                DisplayStatement(<<Identifier("a", 2)>>, 2),
                Assignment(Identifier("x", 3),
                           BinaryExpression(Identifier("x", 3), "+", Num(1, 3), 3), 3) >>, 1),
            ModuleStatement("main", <<>>, <<
                VariableDeclaration("integer", FALSE, <<DeclaratorInit("v", Num(1, 6))>>, 6),
                CallStatement("bump", <<Identifier("v", 7),
                                        BinaryExpression(Identifier("v", 7), "+", Num(1, 7), 7)>>, 7) >>, 5) >>

        \*  1 Declare Integer a[4] = 1, 2, 3, 4
        \*  2 Declare Integer i, other = 5
        \*  3 Input i
        \*  4 Set a[i] = 9
        \*  5 Display a[0], a[1], a[2], a[3], other
        \*  6 Set a[i / 2] = 0
        ArrayWriteProgram == <<
            VariableDeclaration("integer", FALSE,
                <<DeclaratorArray("a", Num(4, 1), <<Num(1, 1), Num(2, 1), Num(3, 1), Num(4, 1)>>, 1)>>, 1),
            VariableDeclaration("integer", FALSE, <<Declarator("i"), DeclaratorInit("other", Num(5, 2))>>, 2),
            InputStatement("i", 3),
            Assignment(ArrayAccess(Identifier("a", 4), Identifier("i", 4), 4), Num(9, 4), 4),
            DisplayStatement(<<ArrayAccess(Identifier("a", 5), Num(0, 5), 5),
                               ArrayAccess(Identifier("a", 5), Num(1, 5), 5),
                               ArrayAccess(Identifier("a", 5), Num(2, 5), 5),
                               ArrayAccess(Identifier("a", 5), Num(3, 5), 5),
                               Identifier("other", 5)>>, 5),
            Assignment(ArrayAccess(Identifier("a", 6),
                                   BinaryExpression(Identifier("i", 6), "/", Num(2, 6), 6), 6),
                       Num(0, 6), 6) >>

        \*  1 Declare Integer a[4] = 1, 2, 3, 4
        \*  2 Declare Integer i
        \*  3 Input i
        \*  4 Display a[i - 3]
        \*  5 Display a[i / 2]
        ArrayReadProgram == <<
            VariableDeclaration("integer", FALSE,
                <<DeclaratorArray("a", Num(4, 1), <<Num(1, 1), Num(2, 1), Num(3, 1), Num(4, 1)>>, 1)>>, 1),
            VariableDeclaration("integer", FALSE, <<Declarator("i")>>, 2),
            InputStatement("i", 3),
            DisplayStatement(<<ArrayAccess(Identifier("a", 4),
                                           BinaryExpression(Identifier("i", 4), "-", Num(3, 4), 4), 4)>>, 4),
            DisplayStatement(<<ArrayAccess(Identifier("a", 5),
                                           BinaryExpression(Identifier("i", 5), "/", Num(2, 5), 5), 5)>>, 5) >>

        \*  1 Declare Integer c = 0
        \*  2 Function Integer pick(Integer n)
        \*  3    While n > 0
        \*  4       If c == 1 Then
        \*  5          Return c * 10
        \*  6       End If
        \*  7       Set c = c + 1
        \*  8    End While
        \*  9    Set c = c + 100
        \* 10 End Function
        \* 11 Module main()
        \* 12    Display pick(1), c
        \* 13    Display pick(0), c
        \* 14 End Module
        ReturnNestedProgram == <<
            VariableDeclaration("integer", FALSE, <<DeclaratorInit("c", Num(0, 1))>>, 1),
            FunctionDeclaration("pick", "integer", <<Parameter("n", "integer", FALSE)>>, <<
                WhileStatement(BinaryExpression(Identifier("n", 3), ">", Num(0, 3), 3), <<
                    IfStatement(BinaryExpression(Identifier("c", 4), "==", Num(1, 4), 4),
                                <<ReturnStatement(BinaryExpression(Identifier("c", 5), "*", Num(10, 5), 5), 5)>>, 4),
                    Assignment(Identifier("c", 7),
                               BinaryExpression(Identifier("c", 7), "+", Num(1, 7), 7), 7) >>, 3),
                Assignment(Identifier("c", 9),
                           BinaryExpression(Identifier("c", 9), "+", Num(100, 9), 9), 9) >>, 2),
            ModuleStatement("main", <<>>, <<
                DisplayStatement(<<FunctionCall("pick", <<Num(1, 12)>>, 12), Identifier("c", 12)>>, 12),
                DisplayStatement(<<FunctionCall("pick", <<Num(0, 13)>>, 13), Identifier("c", 13)>>, 13) >>, 11) >>

        \*  1 Declare String a
        \*  2 Declare String b
        \*  3 Function String one()
        \*  4    Input a
        \*  5    Return a
        \*  6 End Function
        \*  7 Function String two()
        \*  8    Input b
        \*  9    Return b
        \* 10 End Function
        \* 11 Module main()
        \* 12    Display append(one(), two())
        \* 13 End Module
        TwoInputsProgram == <<
            VariableDeclaration("string", FALSE, <<Declarator("a")>>, 1),
            VariableDeclaration("string", FALSE, <<Declarator("b")>>, 2),
            FunctionDeclaration("one", "string", <<>>, <<
                InputStatement("a", 4), ReturnStatement(Identifier("a", 5), 5) >>, 3),
            FunctionDeclaration("two", "string", <<>>, <<
                InputStatement("b", 8), ReturnStatement(Identifier("b", 9), 9) >>, 7),
            ModuleStatement("main", <<>>, <<
                DisplayStatement(<<FunctionCall("append", <<FunctionCall("one", <<>>, 12),
                                                            FunctionCall("two", <<>>, 12)>>, 12)>>, 12) >>, 11) >>

        \*  1 Module change(Integer v, Integer a[])
        \*  2    Set v = 9
        \*  3    Set a[0] = 9
        \*  4 End Module
        \*  5 Module main()
        \*  6    Declare Integer x = 1
        \*  7    Declare Integer b[2] = 1, 2
        \*  8    Call change(x, b)
        \*  9    Display x
        \* 10    Display b[0], b[1]
        \* 11 End Module
        ByValueProgram == <<
            ModuleStatement("change", <<Parameter("v", "integer", FALSE),
                                        ArrayParameter("a", "integer", FALSE)>>, <<
                Assignment(Identifier("v", 2), Num(9, 2), 2),
                Assignment(ArrayAccess(Identifier("a", 3), Num(0, 3), 3), Num(9, 3), 3) >>, 1),
            ModuleStatement("main", <<>>, <<
                VariableDeclaration("integer", FALSE, <<DeclaratorInit("x", Num(1, 6))>>, 6),
                VariableDeclaration("integer", FALSE,
                    <<DeclaratorArray("b", Num(2, 7), <<Num(1, 7), Num(2, 7)>>, 7)>>, 7),
                CallStatement("change", <<Identifier("x", 8), Identifier("b", 8)>>, 8),
                DisplayStatement(<<Identifier("x", 9)>>, 9),
                DisplayStatement(<<ArrayAccess(Identifier("b", 10), Num(0, 10), 10),
                                   ArrayAccess(Identifier("b", 10), Num(1, 10), 10)>>, 10) >>, 5) >>

        \*  1 Module show(v)
        \*  2    Display v
        \*  3 End Module
        \*  4 Module main()
        \*  5    Declare String s = "a"
        \*  6    Call show(s)
        \*  7    Call show(1 + 2)
        \*  8 End Module
        AutoParamProgram == <<
            ModuleStatement("show", <<Parameter("v", "auto", FALSE)>>, <<
                DisplayStatement(<<Identifier("v", 2)>>, 2) >>, 1),
            ModuleStatement("main", <<>>, <<
                VariableDeclaration("string", FALSE, <<DeclaratorInit("s", Str("a", 5))>>, 5),
                CallStatement("show", <<Identifier("s", 6)>>, 6),
                CallStatement("show", <<BinaryExpression(Num(1, 7), "+", Num(2, 7), 7)>>, 7) >>, 4) >>

        \*  1 Module main()
        \*  2    Declare Integer i = 7
        \*  3    For i = 1 To 2
        \*  4       Display i
        \*  5       Set i = i + 10
        \*  6    End For
        \*  7    Display i
        \*  8 End Module
        ForShadowProgram == <<
            ModuleStatement("main", <<>>, <<
                VariableDeclaration("integer", FALSE, <<DeclaratorInit("i", Num(7, 2))>>, 2),
                ForStatement("i", Num(1, 3), Num(2, 3), <<
                    DisplayStatement(<<Identifier("i", 4)>>, 4),
                    Assignment(Identifier("i", 5),
                               BinaryExpression(Identifier("i", 5), "+", Num(10, 5), 5), 5) >>, 3),
                DisplayStatement(<<Identifier("i", 7)>>, 7) >>, 1) >>

        \*  1 Declare <typeWord> n
        \*  2 Input <inputWord>
        \*  3 Display n
        \* as the Parser builds it from the Lexer's tokens
        CaseProgram(typeWord, inputWord) == <<
            VariableDeclaration(tokenize(typeWord).value, FALSE, <<Declarator("n")>>, 1),
            InputStatement(tokenize(inputWord).value, 2),
            DisplayStatement(<<Identifier("n", 3)>>, 3) >>
    IN  [StepCount |-> StepCountProgram, Swap |-> SwapProgram, RefInput |-> RefInputProgram,
        Factorial |-> FactorialProgram, ScopeRead |-> ScopeReadProgram, ScopeWrite |-> ScopeWriteProgram,
        ScopeShadow |-> ScopeShadowProgram, Blocks |-> BlocksProgram, ForReturn |-> ForReturnProgram,
        DoUntilInput |-> DoUntilInputProgram, InfiniteLoop |-> InfiniteLoopProgram,
        ErrorLater |-> ErrorLaterProgram, NoMain |-> NoMainProgram, Absorbed |-> AbsorbedProgram,
        BuiltIn |-> BuiltInProgram, Concurrent |-> ConcurrentProgram,
        ShortCircuit |-> ShortCircuitProgram, InputRetry |-> InputRetryProgram,
        ConstNested |-> ConstNestedProgram, ConstRef |-> ConstRefProgram,
        ConstInput |-> ConstInputProgram, ConstArray |-> ConstArrayProgram,
        DupSame |-> DupSameProgram, DupParam |-> DupParamProgram, Shadow |-> ShadowProgram,
        ReturnMain |-> ReturnMainProgram, Globals |-> GlobalsProgram,
         ForSum |-> ForSumProgram, ForOnce |-> ForOnceProgram, ForAssign |-> ForAssignProgram,
         Recursive |-> RecursiveProgram, Hello |-> HelloProgram, Tapped |-> TappedProgram,
         ArityCall |-> ArityCallProgram, ArityFunction |-> ArityFunctionProgram,
         RefExpression |-> RefExpressionProgram,
         ArrayWrite |-> ArrayWriteProgram, ArrayRead |-> ArrayReadProgram,
         CaseLower |-> CaseProgram("integer", "n"), CaseKeyword |-> CaseProgram("INTEGER", "n"),
         CaseIdentifier |-> CaseProgram("integer", "N"),
         ReturnNested |-> ReturnNestedProgram, ByValue |-> ByValueProgram,
         AutoParam |-> AutoParamProgram, ForShadow |-> ForShadowProgram,
         TwoInputs |-> TwoInputsProgram]

ProgramNames == DOMAIN Programs

\* the `statements` the Interpreter of machine m was constructed with
Statements(m) == Programs[m.prog]

(***************************************************************************)
(* One transition of the evaluator: the code from the resumption point at  *)
(* the head of k to the next one.  shouldStop is what the shouldStop()     *)
(* callback returns during it.                                             *)
(***************************************************************************)
\* the generator returns when nothing is left to run
Finish(m) == IF m.k = <<>> /\ m.status = "running" THEN [m EXCEPT !.status = "done"] ELSE m

RECURSIVE Resume(_, _)

\* a call of evaluate that has a continuation on the microtask queue: it
\* has not returned and is not suspended on an input request
IsQueued(promise) == promise.state \notin {"fulfilled", "awaiting"}

\* the next promise, after promise i, whose call of evaluate is queued
NextPromise(promises, i) ==
    LET n == Len(promises)
        after == {j \in (i + 1)..n : IsQueued(promises[j])}
        before == {j \in 1..i : IsQueued(promises[j])}
    IN  IF after # {} THEN CHOOSE j \in after : \A h \in after : j <= h
        ELSE IF before # {} THEN CHOOSE j \in before : \A h \in before : j <= h
        ELSE i

IsUnsettled(promise) == IsQueued(promise)

(***************************************************************************)
(* evaluate, FUNCTION_CALL of a built-in with several arguments:           *)
(* await Promise.all(funcCallExpr.args.map(arg => this.evaluate(arg))).    *)
(* map starts every call of evaluate and each runs as far as its first     *)
(* await; from there the calls take turns on the microtask queue, one      *)
(* resumption each.  They share the interpreter (this.environment          *)
(* included).  The first rejection rejects Promise.all; the other calls    *)
(* run on with nobody awaiting them.  A call that reaches an Input         *)
(* statement awaits the promise of inputProvider while the others go on;   *)
(* `held` is the call whose request was made last, the one whose resolver  *)
(* inputProvider left in the host's inputResolverRef.                      *)
(***************************************************************************)
AllStatus(promises) ==
    IF \E j \in 1..Len(promises) : IsQueued(promises[j]) THEN "running" ELSE "awaiting"

evaluatePromiseAll(m, f, rest, shouldStop) ==
    LET i == f.turn
        sub == Resume([m EXCEPT !.k = f.promises[i].k, !.vs = f.promises[i].vs], shouldStop)
        back == [sub EXCEPT !.k = rest, !.vs = m.vs, !.status = "running", !.error = NoError]
    IN  CASE sub.status = "thrown" ->
                LET settled == [f.promises EXCEPT ![i].state = "fulfilled"]
                IN  Throw([back EXCEPT !.orphans = @ \o SelectSeq(settled, IsUnsettled)], sub.error)
          [] sub.status = "running" /\ sub.k = <<>> ->
                LET promises == [f.promises EXCEPT ![i] = [k |-> <<>>, vs |-> <<>>, state |-> "fulfilled",
                                                          value |-> sub.vs[Len(sub.vs)]]]
                IN  IF \A j \in 1..Len(promises) : promises[j].state = "fulfilled"
                    THEN [back EXCEPT !.vs = @ \o [j \in 1..Len(promises) |-> promises[j].value],
                                      !.k = <<[f |-> "builtin", expr |-> f.expr,
                                               callerEnv |-> f.callerEnv]>> \o rest]
                    ELSE [back EXCEPT !.status = AllStatus(promises),
                                      !.k = <<[f EXCEPT !.promises = promises,
                                                        !.turn = NextPromise(promises, i)]>> \o rest]
          [] OTHER ->
                \* the call goes on later, or it awaits the promise inputProvider made,
                \* whose resolver the host now holds
                LET awaits == sub.status = "awaiting"
                    promises == [f.promises EXCEPT ![i] = [k |-> sub.k, vs |-> sub.vs,
                                                          state |-> IF awaits THEN "awaiting" ELSE "started",
                                                          value |-> NullV]]
                IN  [back EXCEPT !.status = AllStatus(promises),
                                 !.k = <<[f EXCEPT !.promises = promises,
                                                   !.held = IF awaits THEN i ELSE @,
                                                   !.turn = NextPromise(promises, i)]>> \o rest]

\* the code from the resumption point at the head of k to the next one
Resume(m0, shouldStop) ==
    LET f == Head(m0.k)
        rest == Tail(m0.k)
        stmts == Statements(m0)
    IN  CASE f.f = "run" -> runGenerator(m0, stmts, rest, shouldStop)
          [] f.f = "stmt" -> executeStatementGenerator(m0, f, rest, shouldStop)
          [] f.f = "exec" -> executeStatement(m0, f, rest, stmts)
          [] f.f = "block" -> executeBlockGenerator(m0, f, rest, shouldStop)
          [] f.f = "declare" -> execVariableDeclaration(m0, f, rest)
          [] f.f = "define" -> execDefine(m0, f, rest)
          [] f.f = "declareArray" -> execDeclareArray(m0, f, rest)
          [] f.f = "assignElement" -> execAssignElement(m0, f, rest)
          [] f.f = "index" -> evaluateArrayAccess(m0, f, rest)
          [] f.f = "assign" -> execAssignment(m0, f, rest)
          [] f.f = "display" -> execDisplay(m0, f, rest, shouldStop)
          [] f.f = "input" -> execInput(m0, f, rest, shouldStop)
          [] f.f = "inputResolved" -> execInputResolved(m0, f, rest, shouldStop)
          [] f.f = "if" -> execIf(m0, f, rest)
          [] f.f = "doBody" -> execDoBody(m0, f, rest, shouldStop)
          [] f.f = "doTest" -> execDoTest(m0, f, rest)
          [] f.f = "whileTest" -> execWhileTest(m0, f, rest, shouldStop)
          [] f.f = "forInit" -> execForInit(m0, f, rest)
          [] f.f = "for" -> execFor(m0, f, rest, shouldStop)
          [] f.f = "call" -> executeCallGenerator(m0, f, rest)
          [] f.f = "bind" -> executeCallBind(m0, f, rest)
          [] f.f = "bindValue" -> executeCallBindValue(m0, f, rest)
          [] f.f = "eval" -> evaluate(m0, f, rest, stmts)
          [] f.f = "binary" -> evaluateBinary(m0, f, rest)
          [] f.f = "unary" -> evaluateUnary(m0, f, rest)
          [] f.f = "fcall" -> evaluateFunctionEnd(m0, f, rest)
          [] f.f = "builtin" -> evaluateBuiltIn(m0, f, rest)
          [] f.f = "all" -> evaluatePromiseAll(m0, f, rest, shouldStop)
          [] f.f = "return" -> execReturn(m0, f, rest)

\* a microtask of the evaluator is queued
Runnable(m) == m.status = "running" \/ m.orphans # <<>>

\* an orphan's turn: its promise settles unobserved when it ends
ResumeOrphan(m0, t, shouldStop) ==
    LET Resumed(sub) ==
            LET n == Len(sub.orphans)
                ended == sub.status = "thrown" \/ sub.k = <<>>
                orphans == IF ended THEN SubSeq(sub.orphans, 1, t - 1) \o SubSeq(sub.orphans, t + 1, n)
                           ELSE [sub.orphans EXCEPT ![t] = [@ EXCEPT !.k = sub.k, !.vs = sub.vs]]
                next == IF ended THEN t ELSE t + 1
            IN  [sub EXCEPT !.k = m0.k, !.vs = m0.vs, !.status = m0.status, !.error = m0.error,
                            !.orphans = orphans, !.turn = IF next > Len(orphans) THEN 0 ELSE next]
    IN  Resumed(Resume([m0 EXCEPT !.k = m0.orphans[t].k, !.vs = m0.orphans[t].vs, !.status = "running"],
                       shouldStop))

Step(m, shouldStop) ==
    LET m0 == [m EXCEPT !.call = NoCall, !.afterStop = IF shouldStop THEN @ + 1 ELSE @]
        t == IF m.turn = 0 /\ m.status # "running" THEN 1 ELSE m.turn
    IN  IF t = 0
        THEN LET Turned(r) == [r EXCEPT !.turn = IF r.orphans # <<>> THEN 1 ELSE 0]
             IN  Turned(Finish(Resume(m0, shouldStop)))
        ELSE ResumeOrphan(m0, t, shouldStop)

\* new Interpreter(statements, ...) and the call of run() or runGenerator()
NewInterpreter(p, mode) ==
    [prog |-> p, mode |-> mode, k |-> <<[f |-> "run"]>>, vs |-> <<>>,
     envs |-> <<[enclosing |-> 0, values |-> <<>>, base |-> 0]>>, slots |-> <<>>, environment |-> 1,
     status |-> "running", error |-> NoError, yielded |-> [lineNumber |-> 0, scope |-> <<>>],
     call |-> NoCall, trace |-> <<>>, absorbed |-> FALSE, afterStop |-> 0,
     orphans |-> <<>>, turn |-> 0, par |-> FALSE, arrays |-> <<>>]

\* A variant of GeneratorNext that resumes behind the statement the
\* evaluator was suspended in front of.
GeneratorNextSkipping(m) ==
    CASE m.status = "yielded" -> Finish([m EXCEPT !.status = "running", !.call = NoCall, !.k = Tail(@)])
      [] m.status = "thrown" -> [m EXCEPT !.status = "done", !.call = NoCall]
      [] OTHER -> m

\* iterator.next() of the generator: resumes after a delivered yield; a
\* generator that has thrown is closed and reports done
GeneratorNext(m) ==
    CASE m.status = "yielded" -> [m EXCEPT !.status = "running", !.call = NoCall]
      [] m.status = "thrown" -> [m EXCEPT !.status = "done", !.call = NoCall]
      [] OTHER -> m

\* resolve(rawInput) of the promise made by inputProvider
ResolveInput(m, rawInput) ==
    LET Resolved(k) ==
            <<[f |-> "inputResolved", stmt |-> Head(k).stmt, inputVarEntry |-> Head(k).inputVarEntry,
               rawInput |-> rawInput]>> \o Tail(k)
        f == Head(m.k)
    IN  IF m.status # "awaiting" THEN m
        ELSE IF f.f = "all"
        THEN IF f.held = 0 \/ f.promises[f.held].state # "awaiting" THEN m
             ELSE [m EXCEPT !.status = "running", !.call = NoCall,
                            !.k = <<[f EXCEPT !.promises[f.held].state = "started",
                                              !.promises[f.held].k = Resolved(@),
                                              !.turn = f.held]>> \o Tail(m.k)]
        ELSE [m EXCEPT !.status = "running", !.call = NoCall, !.k = Resolved(m.k)]

(***************************************************************************)
(* The driver (App.tsx).  React state and refs are the variables; `ev` is  *)
(* the evaluator the last handleStart made.  `waiter` is the async         *)
(* function suspended on the evaluator's promise:                          *)
(*   "run"        handleStart, on await runner                             *)
(*   "firstStep"  handleStart on await handleStepOver(), itself on         *)
(*                await debuggerIterator.current.next()                    *)
(*   "stepOver"   handleStepOver called by the Step Over button            *)
(*   "continue"   handleContinue, in its do-while loop                     *)
(*   "detached"   nobody: the promise of handleStop's unawaited next()     *)
(* `replies` is the history of the lines the user submitted in this run.   *)
(***************************************************************************)
VARIABLES ev, output, isRunning, isAwaitingInput, errorLine, isDebugMode, isPaused,
          executionLine, currentScope, inputResolverRef, stopExecutionRef, debuggerIterator,
          waiter, replies, code, tokens, ast, flowchart, history

\* the state of an execution
runVars == <<ev, output, isRunning, isAwaitingInput, errorLine, isDebugMode, isPaused,
             executionLine, currentScope, inputResolverRef, stopExecutionRef, debuggerIterator,
             waiter, replies>>

\* the editor's text and history, and what the Lexer, the Parser and the
\* flowchart generator made of a text
toolVars == <<code, tokens, ast, flowchart, history>>

vars == <<runVars, toolVars>>

\* Bounds of the exploration: a run that has not been asked to stop is
\* followed until its trace has MaxTrace events, and the user submits at
\* most MaxReplies lines per run.
MaxTrace == 60
MaxReplies == 3

\* The lines the user types.
InputLines == {<<"7">>, <<"3">>, <<"x">>, <<" ", "-", "2">>}

\* No evaluator before the first handleStart.
NoInterpreter == [NewInterpreter("StepCount", "run") EXCEPT !.status = "none", !.k = <<>>]

\* App's state when it is mounted, the editor's text apart
Mounted ==
    /\ ev = NoInterpreter
    /\ output = <<>>
    /\ isRunning = FALSE
    /\ isAwaitingInput = FALSE
    /\ errorLine = 0
    /\ isDebugMode = FALSE
    /\ isPaused = FALSE
    /\ executionLine = 0
    /\ currentScope = <<>>
    /\ inputResolverRef = FALSE
    /\ stopExecutionRef = FALSE
    /\ debuggerIterator = FALSE
    /\ waiter = "none"
    /\ replies = <<>>

\* The runs below take their program from the catalogue; the editor's text
\* matters to the formatter only.
NoTokens == <<>>
NoAst == [statements |-> <<>>, error |-> NoError, parsed |-> FALSE]
NoFlowchart == [nodes |-> <<>>, edges |-> <<>>, error |-> NoError, built |-> FALSE]
NoHistory == [past |-> <<>>, present |-> <<>>, future |-> <<>>]

Init ==
    /\ Mounted
    /\ code = <<>> /\ tokens = NoTokens /\ ast = NoAst /\ flowchart = NoFlowchart /\ history = NoHistory

\* A promise the waiter awaits has settled and its continuation is queued.
Settled == waiter # "none" /\ ev.status \in {"yielded", "done", "thrown"}

\* The browser handles a user event only when no microtask is queued.
Quiescent == ~Runnable(ev) /\ ~Settled

\* the format of one displayed value
FormatValue(v) == JsString(v)

RECURSIVE JoinValues(_)
JoinValues(values) == IF values = <<>> THEN "" ELSE FormatValue(Head(values)) \o JoinValues(Tail(values))

\* displayProvider, as the new value of output
displayProvider(values) == Append(output, JoinValues(values))

\* the catch block of handleStart, as the line it appends
CatchLine(e) ==
    CASE e.kind = "ProgramStoppedError" -> "Program stopped by user."
      [] e.kind = "InterpreterError" ->
            "Error on line " \o ToString(e.lineNumber) \o ": " \o e.message
      [] OTHER -> "Runtime Error: " \o e.message

\* cleanupExecution
cleanupExecution ==
    /\ isRunning' = FALSE
    /\ isAwaitingInput' = FALSE
    /\ inputResolverRef' = FALSE
    /\ isDebugMode' = FALSE
    /\ isPaused' = FALSE
    /\ debuggerIterator' = FALSE

\* handleStart, to its await (the Run and Debug buttons are shown when
\* nothing is running)
handleStart(mode, p) ==
    /\ Quiescent
    /\ ~isRunning
    /\ errorLine' = 0
    /\ executionLine' = 0
    /\ currentScope' = <<>>
    /\ stopExecutionRef' = FALSE
    /\ isRunning' = TRUE
    /\ output' = <<"Running program...">>
    /\ ev' = NewInterpreter(p, mode)
    /\ replies' = <<>>
    /\ IF mode = "debug"
       THEN /\ isDebugMode' = TRUE
            /\ debuggerIterator' = TRUE
            /\ isPaused' = FALSE
            /\ waiter' = "firstStep"
       ELSE /\ waiter' = "run"
            /\ UNCHANGED <<isDebugMode, debuggerIterator, isPaused>>
    /\ UNCHANGED <<isAwaitingInput, inputResolverRef>>
    /\ UNCHANGED toolVars

\* One transition of the evaluator, with the host callback it makes:
\* displayProvider or inputProvider.
EvaluatorStep ==
    /\ Runnable(ev)
    /\ Len(ev.trace) < MaxTrace \/ stopExecutionRef
    /\ LET next == Step(ev, stopExecutionRef)
       IN  /\ ev' = next
           /\ CASE next.call.cb = "display" ->
                     /\ output' = displayProvider(next.call.arg)
                     /\ UNCHANGED <<isAwaitingInput, inputResolverRef>>
                [] next.call.cb = "input" ->
                     /\ output' = Append(output, next.call.arg)
                     /\ isAwaitingInput' = TRUE
                     /\ inputResolverRef' = TRUE
                [] OTHER -> UNCHANGED <<output, isAwaitingInput, inputResolverRef>>
    /\ UNCHANGED <<isRunning, errorLine, isDebugMode, isPaused, executionLine, currentScope,
                   stopExecutionRef, debuggerIterator, waiter, replies>>
    /\ UNCHANGED toolVars

\* handleStart after await runner: the rest of the try, or the catch
SettleRun ==
    /\ waiter = "run"
    /\ Settled
    /\ waiter' = "none"
    /\ IF ev.status = "thrown"
       THEN /\ output' = Append(output, CatchLine(ev.error))
            /\ errorLine' = IF ev.error.kind = "InterpreterError" THEN ev.error.lineNumber ELSE errorLine
       ELSE /\ output' = Append(output, "Program finished.")
            /\ UNCHANGED errorLine
    /\ cleanupExecution
    /\ UNCHANGED <<ev, executionLine, currentScope, stopExecutionRef, replies>>
    /\ UNCHANGED toolVars

\* handleStepOver after await debuggerIterator.current.next().  A rejection
\* reaches the catch of handleStart when handleStart awaits this call, and
\* nobody when the Step Over button made it.
SettleStep ==
    /\ waiter \in {"firstStep", "stepOver"}
    /\ Settled
    /\ waiter' = "none"
    /\ CASE ev.status = "yielded" ->
              /\ executionLine' = ev.yielded.lineNumber
              /\ currentScope' = ev.yielded.scope
              /\ isPaused' = TRUE
              /\ UNCHANGED <<output, errorLine, isRunning, isAwaitingInput, inputResolverRef,
                             isDebugMode, debuggerIterator>>
         [] ev.status = "done" ->
              /\ output' = Append(output, "Program finished.")
              /\ cleanupExecution
              /\ UNCHANGED <<errorLine, executionLine, currentScope>>
         [] ev.status = "thrown" /\ waiter = "firstStep" ->
              /\ output' = Append(output, CatchLine(ev.error))
              /\ errorLine' = IF ev.error.kind = "InterpreterError" THEN ev.error.lineNumber
                              ELSE errorLine
              /\ cleanupExecution
              /\ UNCHANGED <<executionLine, currentScope>>
         [] OTHER ->
              UNCHANGED <<output, errorLine, executionLine, currentScope, isRunning, isAwaitingInput,
                          inputResolverRef, isDebugMode, isPaused, debuggerIterator>>
    /\ UNCHANGED <<ev, stopExecutionRef, replies>>
    /\ UNCHANGED toolVars

\* handleContinue after an await of its loop: the next turn, the end of
\* the loop, or a rejection nobody handles
SettleContinue ==
    /\ waiter = "continue"
    /\ Settled
    /\ CASE ev.status = "yielded" ->
              /\ ev' = GeneratorNext(ev)
              /\ UNCHANGED <<waiter, output, isRunning, isAwaitingInput, inputResolverRef,
                             isDebugMode, isPaused, debuggerIterator>>
         [] ev.status = "done" ->
              /\ output' = Append(output, "Program finished.")
              /\ cleanupExecution
              /\ waiter' = "none"
              /\ UNCHANGED ev
         [] OTHER ->
              /\ waiter' = "none"
              /\ UNCHANGED <<ev, output, isRunning, isAwaitingInput, inputResolverRef,
                             isDebugMode, isPaused, debuggerIterator>>
    /\ UNCHANGED <<errorLine, executionLine, currentScope, stopExecutionRef, replies>>
    /\ UNCHANGED toolVars

\* the promise of handleStop's debuggerIterator.current.next() settles
SettleDetached ==
    /\ waiter = "detached"
    /\ Settled
    /\ waiter' = "none"
    /\ UNCHANGED <<ev, output, isRunning, isAwaitingInput, errorLine, isDebugMode, isPaused,
                   executionLine, currentScope, inputResolverRef, stopExecutionRef, debuggerIterator,
                   replies>>
    /\ UNCHANGED toolVars

\* handleStepOver, to its await (the Step Over button: shown while
\* isRunning && isDebugMode, disabled unless isPaused)
handleStepOver ==
    /\ Quiescent
    /\ isRunning /\ isDebugMode /\ isPaused
    /\ debuggerIterator
    /\ isPaused' = FALSE
    /\ ev' = GeneratorNext(ev)
    /\ waiter' = "stepOver"
    /\ UNCHANGED <<output, isRunning, isAwaitingInput, errorLine, isDebugMode, executionLine,
                   currentScope, inputResolverRef, stopExecutionRef, debuggerIterator, replies>>
    /\ UNCHANGED toolVars

\* handleContinue, to its first await (the Continue button)
handleContinue ==
    /\ Quiescent
    /\ isRunning /\ isDebugMode /\ isPaused
    /\ debuggerIterator
    /\ isPaused' = FALSE
    /\ executionLine' = 0
    /\ ev' = GeneratorNext(ev)
    /\ waiter' = "continue"
    /\ UNCHANGED <<output, isRunning, isAwaitingInput, errorLine, isDebugMode, currentScope,
                   inputResolverRef, stopExecutionRef, debuggerIterator, replies>>
    /\ UNCHANGED toolVars

\* handleStop (the Stop button: shown while isRunning)
handleStop ==
    /\ Quiescent
    /\ isRunning
    /\ stopExecutionRef' = TRUE
    /\ LET resolved == IF inputResolverRef THEN ResolveInput(ev, NullInput) ELSE ev
       IN  IF debuggerIterator /\ isPaused
           THEN /\ ev' = GeneratorNext(resolved)
                /\ waiter' = "detached"
           ELSE /\ ev' = resolved
                /\ UNCHANGED waiter
    /\ cleanupExecution
    /\ UNCHANGED <<output, errorLine, executionLine, currentScope, replies>>
    /\ UNCHANGED toolVars

\* handleInputSubmit (the console's input line: shown while isAwaitingInput)
handleInputSubmit(value) ==
    /\ Quiescent
    /\ isAwaitingInput
    /\ Len(replies) < MaxReplies
    /\ output' = Append(output, "$ " \o JoinChars(value))
    /\ ev' = IF inputResolverRef THEN ResolveInput(ev, Line(value)) ELSE ev
    /\ isAwaitingInput' = FALSE
    /\ inputResolverRef' = FALSE
    /\ replies' = Append(replies, value)
    /\ UNCHANGED <<isRunning, errorLine, isDebugMode, isPaused, executionLine, currentScope,
                   stopExecutionRef, debuggerIterator, waiter>>
    /\ UNCHANGED toolVars

Next ==
    \/ \E mode \in {"run", "debug"}, p \in ProgramNames : handleStart(mode, p)
    \/ EvaluatorStep
    \/ SettleRun
    \/ SettleStep
    \/ SettleContinue
    \/ SettleDetached
    \/ handleStepOver
    \/ handleContinue
    \/ handleStop
    \/ \E value \in InputLines : handleInputSubmit(value)

Spec == Init /\ [][Next]_vars

(***************************************************************************)
(* interpret() under any host: the host starts an evaluator, takes the     *)
(* values of the iterator in debug mode, and resolves each promise of its  *)
(* inputProvider with a line of text or with null; its shouldStop()        *)
(* returns false.  display and input callbacks are in ev.call and          *)
(* ev.trace; `replies` is the history of the lines given (a null reply     *)
(* is recorded as the empty line).                                         *)
(***************************************************************************)
interpret(mode, p) ==
    /\ ~Runnable(ev)
    /\ ev.status \in {"none", "done", "thrown"}
    /\ ev' = NewInterpreter(p, mode)
    /\ replies' = <<>>
    /\ UNCHANGED <<output, isRunning, isAwaitingInput, errorLine, isDebugMode, isPaused,
                   executionLine, currentScope, inputResolverRef, stopExecutionRef, debuggerIterator,
                   waiter>>
    /\ UNCHANGED toolVars

HostEvaluatorStep ==
    /\ Runnable(ev)
    /\ Len(ev.trace) < MaxTrace
    /\ ev' = Step(ev, FALSE)
    /\ UNCHANGED <<output, isRunning, isAwaitingInput, errorLine, isDebugMode, isPaused,
                   executionLine, currentScope, inputResolverRef, stopExecutionRef, debuggerIterator,
                   waiter, replies>>
    /\ UNCHANGED toolVars

HostIteratorNext ==
    /\ ev.status = "yielded"
    /\ ev' = GeneratorNext(ev)
    /\ UNCHANGED <<output, isRunning, isAwaitingInput, errorLine, isDebugMode, isPaused,
                   executionLine, currentScope, inputResolverRef, stopExecutionRef, debuggerIterator,
                   waiter, replies>>
    /\ UNCHANGED toolVars

HostResolveInput(rawInput) ==
    /\ ev.status = "awaiting"
    /\ ~Runnable(ev)
    /\ Len(replies) < MaxReplies
    /\ ev' = ResolveInput(ev, rawInput)
    /\ replies' = Append(replies, rawInput.text)
    /\ UNCHANGED <<output, isRunning, isAwaitingInput, errorLine, isDebugMode, isPaused,
                   executionLine, currentScope, inputResolverRef, stopExecutionRef, debuggerIterator,
                   waiter>>
    /\ UNCHANGED toolVars

HostNext ==
    \/ \E mode \in {"run", "debug"}, p \in ProgramNames : interpret(mode, p)
    \/ HostEvaluatorStep
    \/ HostIteratorNext
    \/ \E rawInput \in {NullInput} \cup {Line(value) : value \in InputLines} : HostResolveInput(rawInput)

HostSpec == Init /\ [][HostNext]_vars

(***************************************************************************)
(* The editor history (useHistory).  The hook's state is the record        *)
(* `history`; set, undo, redo and reset are the updates they pass to       *)
(* setHistory, as functions of the current record.  The text the editor    *)
(* shows, `code`, is history.present.                                      *)
(***************************************************************************)
canUndo(current) == Len(current.past) > 0
canRedo(current) == Len(current.future) > 0

set(current, newState) ==
    IF newState = current.present THEN current
    ELSE [past |-> Append(current.past, current.present), present |-> newState, future |-> <<>>]

\* A variant of undo that does not keep the present it leaves.
undoForgetting(current) ==
    IF Len(current.past) = 0 THEN current
    ELSE [past |-> SubSeq(current.past, 1, Len(current.past) - 1),
          present |-> current.past[Len(current.past)],
          future |-> current.future]

undo(current) ==
    IF Len(current.past) = 0 THEN current
    ELSE LET newPresent == current.past[Len(current.past)]
             newPast == SubSeq(current.past, 1, Len(current.past) - 1)
         IN  [past |-> newPast, present |-> newPresent, future |-> <<current.present>> \o current.future]

redo(current) ==
    IF Len(current.future) = 0 THEN current
    ELSE LET newPresent == current.future[1]
             newFuture == Tail(current.future)
         IN  [past |-> Append(current.past, current.present), present |-> newPresent, future |-> newFuture]

reset(newInitialState) == [past |-> <<>>, present |-> newInitialState, future |-> <<>>]

(***************************************************************************)
(* The formatter.  A text is a sequence of atoms: a space, a line feed     *)
(* "\n", or a word (a run of letters); two words next to each other are    *)
(* one longer word.  formatCode splits the text at the line feeds, trims   *)
(* every line, indents it by three spaces per level and joins the lines;   *)
(* the level falls before a line that starts with an End keyword, Until    *)
(* or Else and rises after one that starts with a block keyword or Else.   *)
(***************************************************************************)
\* A variant of formatCode that trims the end of a line only.
formatCodeUntrimmed(text) ==
    LET IsWord(atom) == atom \notin {" ", "\t", "\n"}
        \* the regular expression's \b after the atoms matched
        Boundary(t, n) == Len(t) = n \/ ~IsWord(t[n + 1])
        StartsWith(t, words) ==
            /\ Len(t) >= Len(words)
            /\ \A i \in 1..Len(words) : toLowerCase(t[i]) = words[i]
            /\ Boundary(t, Len(words))
        INDENT_KEYWORDS(t) ==
            \E w \in {"module", "function", "if", "do", "while", "for"} : StartsWith(t, <<w>>)
        OUTDENT_KEYWORDS(t) ==
            \/ \E w \in {"module", "function", "if", "while", "for"} : StartsWith(t, <<"end", " ", w>>)
            \/ StartsWith(t, <<"until">>)
        ELSE_KEYWORD(t) == StartsWith(t, <<"else">>)
        INDENTATION == <<" ", " ", " ">>
        RECURSIVE repeat(_)
        repeat(n) == IF n = 0 THEN <<>> ELSE INDENTATION \o repeat(n - 1)
        \* code.split('\n')
        RECURSIVE split(_, _)
        split(t, line) ==
            IF t = <<>> THEN <<line>>
            ELSE IF Head(t) = "\n" THEN <<line>> \o split(Tail(t), <<>>)
            ELSE split(Tail(t), Append(line, Head(t)))
        \* formattedLines.join('\n')
        RECURSIVE join(_)
        join(lines) ==
            IF Len(lines) = 1 THEN lines[1] ELSE lines[1] \o <<"\n">> \o join(Tail(lines))
        \* the for loop over the lines
        RECURSIVE loop(_, _)
        loop(lines, indentLevel) ==
            IF lines = <<>> THEN <<>>
            ELSE LET trimmedLine == TrimEnd(Head(lines))
                     outdented == IF OUTDENT_KEYWORDS(trimmedLine) \/ ELSE_KEYWORD(trimmedLine)
                                  THEN IF indentLevel - 1 > 0 THEN indentLevel - 1 ELSE 0
                                  ELSE indentLevel
                     after == IF INDENT_KEYWORDS(trimmedLine) \/ ELSE_KEYWORD(trimmedLine)
                              THEN outdented + 1 ELSE outdented
                 IN  IF trimmedLine = <<>> THEN <<(<<>>)>> \o loop(Tail(lines), indentLevel)
                     ELSE <<repeat(outdented) \o trimmedLine>> \o loop(Tail(lines), after)
    IN  join(loop(split(text, <<>>), 0))

\* formatCode
formatCode(text) ==
    LET IsWord(atom) == atom \notin {" ", "\t", "\n"}
        \* the regular expression's \b after the atoms matched
        Boundary(t, n) == Len(t) = n \/ ~IsWord(t[n + 1])
        StartsWith(t, words) ==
            /\ Len(t) >= Len(words)
            /\ \A i \in 1..Len(words) : toLowerCase(t[i]) = words[i]
            /\ Boundary(t, Len(words))
        INDENT_KEYWORDS(t) ==
            \E w \in {"module", "function", "if", "do", "while", "for"} : StartsWith(t, <<w>>)
        OUTDENT_KEYWORDS(t) ==
            \/ \E w \in {"module", "function", "if", "while", "for"} : StartsWith(t, <<"end", " ", w>>)
            \/ StartsWith(t, <<"until">>)
        ELSE_KEYWORD(t) == StartsWith(t, <<"else">>)
        INDENTATION == <<" ", " ", " ">>
        RECURSIVE repeat(_)
        repeat(n) == IF n = 0 THEN <<>> ELSE INDENTATION \o repeat(n - 1)
        \* code.split('\n')
        RECURSIVE split(_, _)
        split(t, line) ==
            IF t = <<>> THEN <<line>>
            ELSE IF Head(t) = "\n" THEN <<line>> \o split(Tail(t), <<>>)
            ELSE split(Tail(t), Append(line, Head(t)))
        \* formattedLines.join('\n')
        RECURSIVE join(_)
        join(lines) ==
            IF Len(lines) = 1 THEN lines[1] ELSE lines[1] \o <<"\n">> \o join(Tail(lines))
        \* the for loop over the lines
        RECURSIVE loop(_, _)
        loop(lines, indentLevel) ==
            IF lines = <<>> THEN <<>>
            ELSE LET trimmedLine == Trim(Head(lines))
                     outdented == IF OUTDENT_KEYWORDS(trimmedLine) \/ ELSE_KEYWORD(trimmedLine)
                                  THEN IF indentLevel - 1 > 0 THEN indentLevel - 1 ELSE 0
                                  ELSE indentLevel
                     after == IF INDENT_KEYWORDS(trimmedLine) \/ ELSE_KEYWORD(trimmedLine)
                              THEN outdented + 1 ELSE outdented
                 IN  IF trimmedLine = <<>> THEN <<(<<>>)>> \o loop(Tail(lines), indentLevel)
                     ELSE <<repeat(outdented) \o trimmedLine>> \o loop(Tail(lines), after)
    IN  join(loop(split(text, <<>>), 0))

\* Bounds of the texts formatted: at most MaxLines lines, each one of the
\* shapes below.
MaxLines == 3

LineShapes ==
    { <<>>, <<" ">>, <<"x">>, <<" ", " ", "x", " ">>, <<"If">>, <<" ", "If", " ", "x">>, <<"If", "x">>,
      <<"Else">>, <<"\t", "ELSE">>, <<"End", " ", "If">>, <<" ", "End", " ", " ", "If">>,
      <<"Do">>, <<"Until", " ", "x">>, <<"While", " ", "x">> }

RECURSIVE Sources(_)
Sources(n) ==
    IF n = 1 THEN LineShapes
    ELSE Sources(n - 1) \cup {t \o <<"\n">> \o line : t \in Sources(n - 1), line \in LineShapes}

\* handleFormatCode (the Format Code tool)
handleFormatCode ==
    /\ history' = set(history, formatCode(code))
    /\ code' = history'.present
    /\ UNCHANGED <<runVars, tokens, ast, flowchart>>

FormatInit ==
    /\ Mounted
    /\ code \in Sources(MaxLines)
    /\ history = reset(code)
    /\ tokens = NoTokens /\ ast = NoAst /\ flowchart = NoFlowchart

FormatSpec == FormatInit /\ [][handleFormatCode]_vars

(***************************************************************************)
(* The editor's use of the history: the text typed (the CodeEditor's       *)
(* setCode), the Undo and Redo buttons, and loading a text (resetCode).    *)
(* MaxHistory bounds the texts kept.                                       *)
(***************************************************************************)
MaxHistory == 4

Texts == {<<>>, <<"a">>, <<"b">>}

setCode(newState) ==
    /\ Len(history.past) + Len(history.future) < MaxHistory
    /\ history' = set(history, newState)
    /\ code' = history'.present
    /\ UNCHANGED <<runVars, tokens, ast, flowchart>>

onUndo ==
    /\ history' = undo(history)
    /\ code' = history'.present
    /\ UNCHANGED <<runVars, tokens, ast, flowchart>>

onRedo ==
    /\ history' = redo(history)
    /\ code' = history'.present
    /\ UNCHANGED <<runVars, tokens, ast, flowchart>>

resetCode(newInitialState) ==
    /\ history' = reset(newInitialState)
    /\ code' = history'.present
    /\ UNCHANGED <<runVars, tokens, ast, flowchart>>

HistoryNext ==
    \/ \E newState \in Texts : setCode(newState)
    \/ onUndo
    \/ onRedo
    \/ \E text \in Texts : resetCode(text)

HistorySpec == Init /\ [][HistoryNext]_vars

(***************************************************************************)
(* The Parser, on the tokens of If, Then, Else, End If, Display and         *)
(* identifiers.  A parse method yields the node (or the nodes) it built,    *)
(* the Parser's position after it, and the InterpreterError it threw, if    *)
(* any.  The texts have no operator, parenthesis or bracket token, so       *)
(* parseExpression comes down to parsePrimary.                              *)
(***************************************************************************)
Token(type, value, lineNumber) == [type |-> type, value |-> value, lineNumber |-> lineNumber]

peek(ts, position) == ts[position + 1]
isAtEnd(ts, position) == peek(ts, position).type = "EOF"
check(ts, position, type) == ~isAtEnd(ts, position) /\ peek(ts, position).type = type

Parsed(node, position) == [node |-> node, position |-> position, error |-> NoError]
SyntaxError(message, ts, position) ==
    [node |-> <<>>, position |-> position,
     error |-> InterpreterError(message, peek(ts, position).lineNumber)]

\* consume(type): the position after the token, or the error
consume(ts, position, type) ==
    IF check(ts, position, type) THEN Parsed(peek(ts, position), position + 1)
    ELSE SyntaxError("Expected " \o type \o " but got " \o peek(ts, position).type, ts, position)

parsePrimary(ts, position) ==
    LET token == peek(ts, position)
    IN  IF check(ts, position, "IDENTIFIER")
        THEN Parsed(Identifier(token.value, token.lineNumber), position + 1)
        ELSE SyntaxError("Expected expression, got " \o token.value, ts, position)

parseExpression(ts, position) == parsePrimary(ts, position)

parseDisplayStatement(ts, position) ==
    LET displayToken == peek(ts, position)
        value == parseExpression(ts, position + 1)
    IN  IF value.error # NoError THEN value
        ELSE Parsed(DisplayStatement(<<value.node>>, displayToken.lineNumber), value.position)

RECURSIVE parseStatement(_, _), parseIfStatement(_, _), parseStatements(_, _, _, _)

\* while the next token is none of `stops` and not EOF: push(parseStatement())
parseStatements(ts, position, stops, pushed) ==
    IF peek(ts, position).type \in stops \/ isAtEnd(ts, position) THEN Parsed(pushed, position)
    ELSE LET stmt == parseStatement(ts, position)
         IN  IF stmt.error # NoError THEN stmt
             ELSE parseStatements(ts, stmt.position, stops, Append(pushed, stmt.node))

parseIfStatement(ts, position) ==
    LET ifToken == peek(ts, position)
        condition == parseExpression(ts, position + 1)
        then == consume(ts, condition.position, "THEN")
        thenBranch == parseStatements(ts, then.position, {"ELSE", "END_IF"}, <<>>)
        \* after match(ELSE)
        afterElse == thenBranch.position + 1
        nested == parseIfStatement(ts, afterElse)
        elseBranch == parseStatements(ts, afterElse, {"END_IF"}, <<>>)
        endIf == consume(ts, elseBranch.position, "END_IF")
        noElse == consume(ts, thenBranch.position, "END_IF")
    IN  IF condition.error # NoError THEN condition
        ELSE IF then.error # NoError THEN then
        ELSE IF thenBranch.error # NoError THEN thenBranch
        ELSE IF check(ts, thenBranch.position, "ELSE")
        THEN IF peek(ts, afterElse).type = "IF"
             THEN IF nested.error # NoError THEN nested
                  ELSE Parsed(IfElseStatement(condition.node, thenBranch.node, <<nested.node>>,
                                              ifToken.lineNumber), nested.position)
             ELSE IF elseBranch.error # NoError THEN elseBranch
             ELSE IF endIf.error # NoError THEN endIf
             ELSE Parsed(IfElseStatement(condition.node, thenBranch.node, elseBranch.node,
                                         ifToken.lineNumber), endIf.position)
        ELSE IF noElse.error # NoError THEN noElse
        ELSE Parsed(IfStatement(condition.node, thenBranch.node, ifToken.lineNumber), noElse.position)

parseStatement(ts, position) ==
    CASE peek(ts, position).type = "DISPLAY" -> parseDisplayStatement(ts, position)
      [] peek(ts, position).type = "IF" -> parseIfStatement(ts, position)
      [] OTHER -> SyntaxError("Unexpected token: " \o peek(ts, position).value, ts, position)

\* Parser.parse: the statements, or the error thrown
parse(ts) ==
    LET all == parseStatements(ts, 0, {}, <<>>)
    IN  [statements |-> all.node, error |-> all.error, parsed |-> TRUE]

(***************************************************************************)
(* Token texts with properly nested If statements.  A text is described by *)
(* its statements: a Display, or an If with its then block and, as `form`  *)
(* says, no Else, an Else block closed by the End If of the If, or a       *)
(* chained `Else If ...` closed by the End If of the chain.  All the       *)
(* tokens are on line 1.                                                   *)
(***************************************************************************)
MaxIfDepth == 2

ShownText == [s |-> "display", then |-> <<>>, form |-> "none", else |-> <<>>]
IfText(then, form, else) == [s |-> "if", then |-> then, form |-> form, else |-> else]

\* the lists of one or two of the given statements
Lists(stmts) == {<<a>> : a \in stmts} \cup {<<a, b>> : a \in stmts, b \in stmts}

RECURSIVE IfTexts(_)
IfTexts(depth) ==
    IF depth = 0 THEN {IfText(<<ShownText>>, "none", <<>>)}
    ELSE LET inner == IfTexts(depth - 1)
             thens == Lists({ShownText} \cup IfTexts(0))
             blocks == Lists({ShownText} \cup inner)
         IN  {IfText(t, "none", <<>>) : t \in thens}
                 \cup {IfText(t, "block", e) : t \in thens, e \in blocks}
                 \cup {IfText(t, "chain", <<c>>) : t \in thens, c \in inner}

RECURSIVE Unparse(_), Described(_)
UnparseAll(list) ==
    IF list = <<>> THEN <<>>
    ELSE Unparse(list[1]) \o (IF Len(list) = 1 THEN <<>> ELSE Unparse(list[2]))

\* the tokens of a statement
Unparse(text) ==
    IF text.s = "display" THEN <<Token("DISPLAY", "display", 1), Token("IDENTIFIER", "a", 1)>>
    ELSE <<Token("IF", "if", 1), Token("IDENTIFIER", "c", 1), Token("THEN", "then", 1)>>
             \o UnparseAll(text.then)
             \o CASE text.form = "none" -> <<Token("END_IF", "end if", 1)>>
                  [] text.form = "block" ->
                        <<Token("ELSE", "else", 1)>> \o UnparseAll(text.else)
                            \o <<Token("END_IF", "end if", 1)>>
                  [] text.form = "chain" -> <<Token("ELSE", "else", 1)>> \o Unparse(text.else[1])

DescribedAll(list) ==
    IF list = <<>> THEN <<>>
    ELSE <<Described(list[1])>> \o (IF Len(list) = 1 THEN <<>> ELSE <<Described(list[2])>>)

\* the statement a text describes
Described(text) ==
    IF text.s = "display" THEN DisplayStatement(<<Identifier("a", 1)>>, 1)
    ELSE IF text.form = "none" THEN IfStatement(Identifier("c", 1), DescribedAll(text.then), 1)
    ELSE IfElseStatement(Identifier("c", 1), DescribedAll(text.then), DescribedAll(text.else), 1)

\* the Lexer's token list of a text: the tokens and EOF
TokensOf(list) == UnparseAll(list) \o <<Token("EOF", "", 1)>>

\* the texts parsed: an If statement alone, or followed by a Display
IfSources == {<<t>> : t \in IfTexts(MaxIfDepth)} \cup {<<t, ShownText>> : t \in IfTexts(MaxIfDepth - 1)}

\* interpret: `new Parser(tokens).parse()`
ParserParse ==
    /\ ~ast.parsed
    /\ ast' = parse(tokens)
    /\ UNCHANGED <<runVars, code, tokens, flowchart, history>>

\* the editor holds a text, here given by its statements, and the Lexer has
\* made its tokens
ParseInit ==
    /\ Mounted
    /\ code \in IfSources
    /\ tokens = TokensOf(code)
    /\ ast = NoAst /\ flowchart = NoFlowchart /\ history = NoHistory

ParseSpec == ParseInit /\ [][ParserParse]_vars

(***************************************************************************)
(* The Lexer, on a text.  The text is a sequence of atoms: a space, a tab,  *)
(* a line feed, a double quote, or a word (a run of letters or of digits,   *)
(* never followed by another word).  A token carries, besides the fields    *)
(* of the Token object, the position `at` of its first character, which     *)
(* the Lexer does not keep: it is there for the properties.                 *)
(***************************************************************************)
IsWhitespace(atom) == atom \in {" ", "\t", "\n"}
NumberAtoms == {"7", "12"}
OPERATORS == ("=" :> "ASSIGN") @@ ("(" :> "LPAREN") @@ (")" :> "RPAREN") @@ ("," :> "COMMA")
IsLetters(atom) == ~IsWhitespace(atom) /\ atom # "\"" /\ atom \notin NumberAtoms /\ atom \notin DOMAIN OPERATORS

\* Lexer.SORTED_KEYWORDS, the longest first, for the keywords of the texts
SORTED_KEYWORDS ==
    << [keyword |-> "display", words |-> <<"display">>, type |-> "DISPLAY"],
       [keyword |-> "end if", words |-> <<"end", "if">>, type |-> "END_IF"],
       [keyword |-> "then", words |-> <<"then">>, type |-> "THEN"],
       [keyword |-> "else", words |-> <<"else">>, type |-> "ELSE"],
       [keyword |-> "if", words |-> <<"if">>, type |-> "IF"] >>

atomAt(input, position) == IF position < Len(input) THEN input[position + 1] ELSE ""

\* the number of whitespace atoms from position on
RECURSIVE WhitespaceRun(_, _)
WhitespaceRun(input, position) ==
    IF position < Len(input) /\ IsWhitespace(atomAt(input, position))
    THEN 1 + WhitespaceRun(input, position + 1) ELSE 0

\* the length of the match of /^keyword\b/i with every blank of the keyword
\* replaced by \s+, at the position; 0 when there is none
keywordMatch(input, position, k) ==
    IF ~(IsLetters(atomAt(input, position)) /\ toLowerCase(atomAt(input, position)) = k.words[1]) THEN 0
    ELSE IF Len(k.words) = 1 THEN 1
    ELSE LET blanks == WhitespaceRun(input, position + 1)
             second == atomAt(input, position + 1 + blanks)
         IN  IF blanks >= 1 /\ IsLetters(second) /\ toLowerCase(second) = k.words[2]
             THEN blanks + 2 ELSE 0

\* the end of the string literal that begins at the position: the position
\* of its closing quote, or the length of the input
RECURSIVE StringEnd(_, _)
StringEnd(input, position) ==
    IF position < Len(input) /\ atomAt(input, position) # "\"" THEN StringEnd(input, position + 1)
    ELSE position

RECURSIVE Concat(_, _, _)
Concat(input, from, to) == IF from >= to THEN "" ELSE atomAt(input, from) \o Concat(input, from + 1, to)

LexToken(type, value, lineNumber, at) ==
    [type |-> type, value |-> value, lineNumber |-> lineNumber, at |-> at]

\* Lexer.tokenize with matchKeyword, consumeString, consumeNumber,
\* consumeIdentifier and matchOperator: the tokens pushed, or the error
RECURSIVE LexerTokenize(_, _, _, _)
LexerTokenize(input, position, lineNumber, pushed) ==
    LET char == atomAt(input, position)
        matched == {i \in 1..Len(SORTED_KEYWORDS) : keywordMatch(input, position, SORTED_KEYWORDS[i]) > 0}
    IN  IF ~(position < Len(input))
        THEN [tokens |-> Append(pushed, LexToken("EOF", "", lineNumber, position)), error |-> NoError]
        ELSE IF IsWhitespace(char)
        THEN LexerTokenize(input, position + 1, IF char = "\n" THEN lineNumber + 1 ELSE lineNumber, pushed)
        ELSE IF matched # {}
        THEN LET k == SORTED_KEYWORDS[CHOOSE i \in matched : \A j \in matched : i <= j]
             IN  LexerTokenize(input, position + keywordMatch(input, position, k), lineNumber,
                               Append(pushed, LexToken(k.type, k.keyword, lineNumber, position)))
        ELSE IF char = "\""
        THEN LET end == StringEnd(input, position + 1)
             IN  IF atomAt(input, end) # "\""
                 THEN [tokens |-> pushed, error |-> InterpreterError("Unterminated string literal", lineNumber)]
                 ELSE LexerTokenize(input, end + 1, lineNumber,
                          Append(pushed, LexToken("STRING", Concat(input, position + 1, end),
                                                  lineNumber, position)))
        ELSE IF char \in NumberAtoms
        THEN LexerTokenize(input, position + 1, lineNumber,
                           Append(pushed, LexToken("NUMBER", char, lineNumber, position)))
        ELSE IF char \in DOMAIN OPERATORS
        THEN LexerTokenize(input, position + 1, lineNumber,
                           Append(pushed, LexToken(OPERATORS[char], char, lineNumber, position)))
        ELSE LexerTokenize(input, position + 1, lineNumber,
                           Append(pushed, LexToken("IDENTIFIER", char, lineNumber, position)))

\* The texts lexed: up to MaxLexemes lexemes, with a space or a line feed
\* between two of them.
MaxLexemes == 3

Lexemes ==
    { <<"Display">>, <<"x">>, <<"If">>, <<"7">>,
      <<"End", " ", "If">>, <<"End", "\n", "If">>, <<"End", " ", "\n", " ", "If">>,
      <<"\"", "a", "\"">>, <<"\"", "a", "\n", "b", "\"">> }

RECURSIVE LexSources(_)
LexSources(n) ==
    IF n = 1 THEN Lexemes
    ELSE LexSources(n - 1)
             \cup {t \o sep \o l : t \in LexSources(n - 1), sep \in {<<" ">>, <<"\n">>}, l \in Lexemes}

\* interpret: `new Lexer(code).tokenize()`; an error thrown ends interpret
\* as an error of the Parser does
LexerRun ==
    /\ tokens = NoTokens /\ ~ast.parsed
    /\ LET lexed == LexerTokenize(code, 0, 1, <<>>)
       IN  IF lexed.error = NoError THEN tokens' = lexed.tokens /\ ast' = ast
           ELSE tokens' = tokens /\ ast' = [ast EXCEPT !.error = lexed.error, !.parsed = TRUE]
    /\ UNCHANGED <<runVars, code, flowchart, history>>

LexInit ==
    /\ Mounted
    /\ code \in LexSources(MaxLexemes)
    /\ tokens = NoTokens /\ ast = NoAst /\ flowchart = NoFlowchart /\ history = NoHistory

LexSpec == LexInit /\ [][LexerRun]_vars

(***************************************************************************)
(* The flowchart generator (FlowchartAstVisitor).  A visitor g has the      *)
(* fields of the class: nodes, edges, nodeCounter,                          *)
(* currentSubroutineEndNodeId.  The id `node-<n>` is the number n and the   *)
(* empty string, which ends a path, is NoId.  A node keeps its id, type     *)
(* and label and whether it is a dummy (created with DUMMY_NODE_SIZE); the  *)
(* computed width and height are left out.  An edge without a label has     *)
(* the label "".                                                            *)
(***************************************************************************)
NoId == -1

NewVisitor == [nodes |-> <<>>, edges |-> <<>>, nodeCounter |-> 0, currentSubroutineEndNodeId |-> NoId]

\* createNode: the visitor after it; the node's id is the counter before
createNode(g, type, label, dummy) ==
    [g EXCEPT !.nodes = Append(@, [id |-> g.nodeCounter, type |-> type, label |-> label, dummy |-> dummy]),
              !.nodeCounter = @ + 1]

addEdge(g, from, to, label) ==
    IF from = NoId \/ to = NoId THEN g
    ELSE [g EXCEPT !.edges = Append(@, [from |-> from, to |-> to, label |-> label])]

\* expressionToString, for the expressions of the texts below
RECURSIVE expressionToString(_)
expressionToString(expr) ==
    CASE expr.type = "LITERAL" ->
            IF expr.value.t = "str" THEN "\"" \o expr.value.s \o "\"" ELSE JsString(expr.value)
      [] expr.type = "IDENTIFIER" -> expr.name
      [] expr.type = "BINARY_EXPRESSION" ->
            expressionToString(expr.left) \o " " \o expr.operator \o " " \o expressionToString(expr.right)
      [] OTHER -> "expr"

Visited(g, id) == [g |-> g, id |-> id]

\* createNode, then addEdge from incomingId to the node made, whose id is
\* the counter before
Linked(g, type, label, dummy, incomingId, edgeLabel) ==
    addEdge(createNode(g, type, label, dummy), incomingId, g.nodeCounter, edgeLabel)

\* A variant of visitReturn that hands the Return node on as the end of
\* the path.
visitReturnOpen(g, stmt, incomingId, edgeLabel) ==
    LET ToEnd(g2) == IF g.currentSubroutineEndNodeId # NoId
                     THEN addEdge(g2, g.nodeCounter, g.currentSubroutineEndNodeId, "") ELSE g2
    IN  Visited(ToEnd(Linked(g, "process", "Return " \o expressionToString(stmt.value), FALSE,
                             incomingId, edgeLabel)), g.nodeCounter)

\* visit, RETURN_STATEMENT
visitReturn(g, stmt, incomingId, edgeLabel) ==
    LET ToEnd(g2) == IF g.currentSubroutineEndNodeId # NoId
                     THEN addEdge(g2, g.nodeCounter, g.currentSubroutineEndNodeId, "") ELSE g2
    IN  Visited(ToEnd(Linked(g, "process", "Return " \o expressionToString(stmt.value), FALSE,
                             incomingId, edgeLabel)), NoId)

RECURSIVE visit(_, _, _, _), visitBlock(_, _, _, _)

\* visitBlock: the loop from statement 1 on
visitBlock(g, statements, entryId, entryLabel) ==
    LET Rest(next) == visitBlock(next.g, Tail(statements), next.id, "")
    IN  IF statements = <<>> \/ entryId = NoId THEN Visited(g, entryId)
        ELSE Rest(visit(g, Head(statements), entryId, entryLabel))

visit(g, stmt, incomingId, edgeLabel) ==
    LET Simple(type, label) == Visited(Linked(g, type, label, FALSE, incomingId, edgeLabel), g.nodeCounter)
    IN  CASE stmt.type = "ASSIGNMENT" ->
                Simple("process", "Set " \o expressionToString(stmt.lvalue) \o " = "
                                      \o expressionToString(stmt.value))
          [] stmt.type = "DISPLAY_STATEMENT" ->
                \* the texts below display one value
                Simple("io", "Display " \o expressionToString(stmt.values[1]))
          [] stmt.type = "INPUT_STATEMENT" -> Simple("io", "Input " \o stmt.identifier)
          [] stmt.type = "CALL_STATEMENT" -> Simple("process", "Call Module:\n" \o stmt.name)
          [] stmt.type = "IF_STATEMENT" ->
                LET conditionNode == g.nodeCounter
                    hasElse == stmt.hasElse /\ Len(stmt.elseBranch) > 0
                    \* the merge node and the edges into it from the ends of the branches
                    Merge(trueBranchEnd, falseBranchEnd) ==
                        Visited(addEdge(addEdge(createNode(falseBranchEnd.g, "process", "", TRUE),
                                                trueBranchEnd.id, falseBranchEnd.g.nodeCounter, ""),
                                        falseBranchEnd.id, falseBranchEnd.g.nodeCounter,
                                        IF hasElse THEN "" ELSE "False"),
                                falseBranchEnd.g.nodeCounter)
                    Else(trueBranchEnd) ==
                        Merge(trueBranchEnd,
                              IF hasElse
                              THEN visitBlock(trueBranchEnd.g, stmt.elseBranch, conditionNode, "False")
                              ELSE Visited(trueBranchEnd.g, conditionNode))
                IN  Else(visitBlock(Linked(g, "decision", expressionToString(stmt.condition), FALSE,
                                           incomingId, edgeLabel),
                                    stmt.thenBranch, conditionNode, "True"))
          [] stmt.type = "WHILE_STATEMENT" ->
                LET conditionNode == g.nodeCounter
                    Back(loopBodyEnd) ==
                        Visited(addEdge(loopBodyEnd.g, loopBodyEnd.id, conditionNode, ""), conditionNode)
                IN  Back(visitBlock(Linked(g, "decision", expressionToString(stmt.condition), FALSE,
                                           incomingId, edgeLabel),
                                    stmt.body, conditionNode, "True"))
          [] stmt.type \in {"DO_WHILE_STATEMENT", "DO_UNTIL_STATEMENT"} ->
                LET bodyStartNode == g.nodeCounter
                    \* the condition node, the edge into it and the edge back
                    Test(bodyEnd) ==
                        Visited(addEdge(Linked(bodyEnd.g, "decision", expressionToString(stmt.condition),
                                               FALSE, bodyEnd.id, ""),
                                        bodyEnd.g.nodeCounter, bodyStartNode,
                                        IF stmt.type = "DO_WHILE_STATEMENT" THEN "True" ELSE "False"),
                                bodyEnd.g.nodeCounter)
                IN  Test(visitBlock(Linked(g, "process", "", TRUE, incomingId, edgeLabel),
                                    stmt.body, bodyStartNode, ""))
          [] stmt.type = "FOR_STATEMENT" ->
                LET initNode == g.nodeCounter
                    conditionNode == g.nodeCounter + 1
                    incrementNode == g.nodeCounter + 2
                    Back(loopBodyEnd) ==
                        Visited(addEdge(addEdge(loopBodyEnd.g, loopBodyEnd.id, incrementNode, ""),
                                        incrementNode, conditionNode, ""),
                                conditionNode)
                IN  Back(visitBlock(
                        createNode(
                            Linked(Linked(g, "process", "Set " \o stmt.identifier \o " = "
                                                 \o expressionToString(stmt.start), FALSE,
                                          incomingId, edgeLabel),
                                   "decision", stmt.identifier \o " <= " \o expressionToString(stmt.end),
                                   FALSE, initNode, ""),
                            "process", "Set " \o stmt.identifier \o " = " \o stmt.identifier \o " + 1",
                            FALSE),
                        stmt.body, conditionNode, "True"))
          [] stmt.type = "RETURN_STATEMENT" -> visitReturn(g, stmt, incomingId, edgeLabel)
          [] stmt.type \in {"MODULE_STATEMENT", "FUNCTION_DECLARATION"} -> Visited(g, incomingId)
          [] OTHER -> Simple("process", "// Unsupported: " \o stmt.type)

\* build's chart of a module or of the top-level statements: the end node is
\* created when the path reaches the end
buildModule(g, body, startLabel, endLabel) ==
    LET End(last) == IF last.id # NoId THEN Linked(last.g, "end", endLabel, FALSE, last.id, "")
                     ELSE last.g
    IN  End(visitBlock(createNode(g, "start", startLabel, FALSE), body, g.nodeCounter, ""))

\* build's chart of a function
buildFunction(g, func) ==
    LET startNode == g.nodeCounter
        endNode == g.nodeCounter + 1
        End(last) == [addEdge(last.g, last.id, endNode, "") EXCEPT !.currentSubroutineEndNodeId = NoId]
    IN  End(visitBlock([createNode(createNode(g, "start", "Start Function " \o func.name, FALSE),
                                   "end", "End Function " \o func.name, FALSE)
                            EXCEPT !.currentSubroutineEndNodeId = endNode],
                       func.body, startNode, ""))

RECURSIVE buildEach(_, _, _)
\* the loops of build over the other modules and over the functions
buildEach(g, list, isFunction) ==
    IF list = <<>> THEN g
    ELSE buildEach(IF isFunction THEN buildFunction(g, Head(list))
                   ELSE buildModule(g, Head(list).body, "Start " \o Head(list).name,
                                    "End " \o Head(list).name),
                   Tail(list), isFunction)

\* FlowchartAstVisitor.build: the chart, or the error thrown
build(statements) ==
    LET IsModule(st) == st.type = "MODULE_STATEMENT"
        IsFunction(st) == st.type = "FUNCTION_DECLARATION"
        IsTopLevel(st) == ~IsModule(st) /\ ~IsFunction(st)
        IsMain(st) == IsModule(st) /\ toLowerCase(st.name) = "main"
        IsOther(st) == IsModule(st) /\ toLowerCase(st.name) # "main"
        modules == SelectSeq(statements, IsModule)
        functions == SelectSeq(statements, IsFunction)
        topLevelStatements == SelectSeq(statements, IsTopLevel)
        mains == SelectSeq(statements, IsMain)
        Chart(g) == [nodes |-> g.nodes, edges |-> g.edges, error |-> NoError, built |-> TRUE]
    IN  IF statements = <<>> THEN Chart(NewVisitor)
        ELSE IF mains = <<>> /\ modules # <<>>
        THEN [nodes |-> <<>>, edges |-> <<>>, built |-> TRUE,
              error |-> InterpreterError("A 'main' module is required to generate a flowchart when modules are defined.", 1)]
        ELSE Chart(buildEach(buildEach(IF mains # <<>>
                                       THEN buildModule(NewVisitor, mains[1].body, "Start Main", "End Main")
                                       ELSE IF topLevelStatements # <<>>
                                       THEN buildModule(NewVisitor, topLevelStatements, "Start", "End")
                                       ELSE NewVisitor,
                                       SelectSeq(statements, IsOther), FALSE),
                             functions, TRUE))

(***************************************************************************)
(* The programs charted: a body of one or two statements, each a Display,  *)
(* a Return, or an If, If-Else, While, Do-Until or For over blocks of one   *)
(* or two Displays and Returns, as the body of a function, of main, of      *)
(* main beside a module and two functions with the same body, or of a      *)
(* module that is not main and has no main beside it.                      *)
(***************************************************************************)
MaxBlock == 2

Blocks(stmts) ==
    UNION {[1..n -> stmts] : n \in 1..MaxBlock}

FlowSimple == {DisplayStatement(<<Identifier("a", 1)>>, 1), ReturnStatement(Identifier("x", 1), 1)}

FlowCompound ==
    LET inner == Blocks(FlowSimple)
        c == Identifier("c", 1)
    IN  {IfStatement(c, t, 1) : t \in inner}
            \cup {IfElseStatement(c, t, e, 1) : t \in inner, e \in inner}
            \cup {WhileStatement(c, b, 1) : b \in inner}
            \cup {DoUntilStatement(b, c, 1) : b \in inner}
            \cup {ForStatement("i", Literal(NumV(1), 1), Literal(NumV(2), 1), b, 1) : b \in inner}

FlowBodies == Blocks(FlowSimple \cup FlowCompound)

FlowPrograms ==
    {<<FunctionDeclaration("f", "integer", <<>>, b, 1)>> : b \in FlowBodies}
        \cup {<<ModuleStatement("main", <<>>, b, 1)>> : b \in Blocks(FlowSimple)}
        \cup {<<ModuleStatement("main", <<>>, <<DisplayStatement(<<Identifier("a", 1)>>, 1)>>, 1),
                ModuleStatement("helper", <<>>, b, 1),
                FunctionDeclaration("f", "integer", <<>>, b, 1),
                FunctionDeclaration("g", "integer", <<>>, b, 1)>> : b \in Blocks(FlowSimple)}
        \cup {<<ModuleStatement("helper", <<>>, b, 1)>> : b \in Blocks(FlowSimple)}

\* handleGenerateFlowchart, on the statements the Parser made of the text
handleGenerateFlowchart ==
    /\ ~flowchart.built
    /\ flowchart' = build(ast.statements)
    /\ IF flowchart'.error = NoError THEN errorLine' = 0 /\ output' = output
       ELSE /\ output' = <<"Flowchart generation failed.", CatchLine(flowchart'.error)>>
            /\ errorLine' = flowchart'.error.lineNumber
    /\ UNCHANGED <<ev, isRunning, isAwaitingInput, isDebugMode, isPaused, executionLine, currentScope,
                   inputResolverRef, stopExecutionRef, debuggerIterator, waiter, replies, code, tokens, ast, history>>

FlowInit ==
    /\ Mounted
    /\ ast \in {[statements |-> p, error |-> NoError, parsed |-> TRUE] : p \in FlowPrograms}
    /\ code = <<>> /\ tokens = NoTokens /\ flowchart = NoFlowchart /\ history = NoHistory

FlowSpec == FlowInit /\ [][handleGenerateFlowchart]_vars

(***************************************************************************)
(* Observations on the evaluator's trace.                                  *)
(***************************************************************************)
Last(seq) == seq[Len(seq)]

IsCallback(e) == e.ev \in {"display", "input"}
IsDisplay(e) == e.ev = "display"
IsStep(e) == e.ev = "step"
IsStepOrExec(e) == e.ev \in {"step", "exec"}

\* the display callbacks and input requests made, in order, with their values
Callbacks(m) ==
    LET made == SelectSeq(m.trace, IsCallback)
    IN  [i \in 1..Len(made) |-> [cb |-> made[i].ev, arg |-> made[i].data]]

\* the lines the display callback was given, as the console shows them
Displayed(m) ==
    LET made == SelectSeq(m.trace, IsDisplay)
    IN  [i \in 1..Len(made) |-> JoinValues(made[i].data)]

\* the step events delivered to the driver
Steps(m) == SelectSeq(m.trace, IsStep)

\* the evaluator has finished on its own account: nobody asked it to stop
Finished == ev.status \in {"done", "thrown"} /\ ~stopExecutionRef

(***************************************************************************)
(* Interpreter.run on a fresh evaluator: the for-await loop drains the     *)
(* generator; the host answers each input request with the next of the     *)
(* given lines.  MaxDrain bounds the number of transitions followed.       *)
(***************************************************************************)
MaxDrain == 600

RECURSIVE Drain(_, _, _)
Drain(m, lines, fuel) ==
    IF fuel = 0 THEN m
    ELSE CASE Runnable(m) -> Drain(Step(m, FALSE), lines, fuel - 1)
           [] m.status = "awaiting" /\ lines # <<>> ->
                 Drain(ResolveInput(m, Line(Head(lines))), Tail(lines), fuel - 1)
           [] OTHER -> m

run(p, lines) == Drain(NewInterpreter(p, "run"), lines, MaxDrain)

(***************************************************************************)
(* C1.  For every program and every sequence of input replies, a debug     *)
(* session driven to the end of the program (by Step Over and Continue)    *)
(* makes the same display callbacks with the same values and the same      *)
(* input requests, in the same order, as Interpreter.run on the same       *)
(* program with the same replies, and ends the same way.                   *)
(***************************************************************************)
C1_DebugDrainedEqualsRun ==
    (ev.mode = "debug" /\ Finished) =>
        LET r == run(ev.prog, replies)
        IN  /\ Callbacks(r) = Callbacks(ev)
            /\ r.status = ev.status
            /\ r.error = ev.error

\* a debug session that went through steps, an input request with a
\* rejected and an accepted reply, and displays, to the end of the program
C1_Witness ==
    /\ ev.mode = "debug" /\ ev.status = "done" /\ ~stopExecutionRef
    /\ ev.prog = "RefInput"
    /\ Len(replies) = 2
    /\ Len(Steps(ev)) >= 5
    /\ Len(Callbacks(ev)) = 4

(***************************************************************************)
(* C2.  In debug mode the step events and the executions of statements     *)
(* outside expression-level function calls alternate: each execution is    *)
(* preceded by exactly one step event, which carries the statement's       *)
(* line, and each step event is followed by the execution of its           *)
(* statement before the next step event.  For the four-statement main      *)
(* module: exactly 4 step events (lines 2, 3, 4, 5); the snapshot          *)
(* delivered once the third statement has run shows x = 4; the display is  *)
(* 4.                                                                      *)
(***************************************************************************)
StepsAndExecs(m) == SelectSeq(m.trace, IsStepOrExec)

C2_OneStepPerStatement ==
    /\ ev.mode = "debug" =>
          LET events == StepsAndExecs(ev)
          IN  \A i \in 1..Len(events) :
                  /\ events[i].ev = (IF i % 2 = 1 THEN "step" ELSE "exec")
                  /\ i % 2 = 0 => events[i].lineNumber = events[i - 1].lineNumber
    /\ (ev.mode = "debug" /\ Finished) => Len(StepsAndExecs(ev)) % 2 = 0
    /\ (ev.mode = "debug" /\ ev.prog = "StepCount" /\ Finished) =>
          /\ Len(Steps(ev)) = 4
          /\ [i \in 1..4 |-> Steps(ev)[i].lineNumber] = <<2, 3, 4, 5>>
          /\ Steps(ev)[4].data = ("x" :> NumV(4))
          /\ Displayed(ev) = <<"4">>
    /\ (ev.mode = "debug" /\ ev.prog = "StepCount" /\ ev.status = "yielded"
            /\ ev.yielded.lineNumber = 5) =>
          /\ Len(Steps(ev)) = 4
          /\ ev.yielded.scope = ("x" :> NumV(4))

\* the four-statement program stepped to its end
C2_Witness ==
    /\ ev.mode = "debug" /\ Finished
    /\ ev.prog = "StepCount"
    /\ Len(Steps(ev)) = 4
    /\ currentScope = ("x" :> NumV(4))
    /\ output = <<"Running program...", "4", "Program finished.">>

(***************************************************************************)
(* C3.  The step event of a statement S is delivered before any effect of  *)
(* S: when the event is emitted the evaluator is suspended in front of S   *)
(* with the snapshot of its current scope (S has changed nothing), and a   *)
(* suspended evaluator does nothing (no display, input request,            *)
(* definition or assignment) until the driver calls next().                *)
(***************************************************************************)
C3_Delivered ==
    (ev'.trace # ev.trace /\ ev'.trace # <<>> /\ Last(ev'.trace).ev = "step") =>
        /\ ev'.status = "yielded"
        /\ Head(ev'.k).f = "exec"
        /\ ev'.yielded = [lineNumber |-> Head(ev'.k).stmt.lineNumber,
                          scope |-> serialize(ev', ev'.environment)]
        /\ Last(ev'.trace).lineNumber = ev'.yielded.lineNumber
        /\ ev'.call = NoCall
        /\ SubSeq(ev'.trace, 1, Len(ev'.trace) - 1) = ev.trace

C3_Suspended ==
    (ev.status = "yielded" /\ ev' # ev) =>
        /\ ev' = GeneratorNext(ev)
        /\ waiter' \in {"stepOver", "continue", "detached"}

C3_StepBeforeEffects == [][C3_Delivered /\ C3_Suspended]_vars

\* paused in front of the Display of the four-statement program: nothing
\* displayed yet
C3_Witness ==
    /\ ev.mode = "debug" /\ ev.status = "yielded" /\ isPaused
    /\ ev.prog = "StepCount" /\ executionLine = 5
    /\ output = <<"Running program...">>

(***************************************************************************)
(* C4.  While a function called from an expression is executing, at any    *)
(* depth, no step event is emitted and the evaluator is never suspended    *)
(* at a step: the statements of the function body run within the step of   *)
(* the statement that contains the call.                                   *)
(***************************************************************************)
C4_NoStepInFunctionCall ==
    [][ /\ (InFunctionCall(ev.k) \/ InFunctionCall(ev'.k)) =>
              (ev'.status # "yielded" /\ (ev'.trace = <<>> \/ Steps(ev') = Steps(ev)))
      ]_vars

\* a debug session in which statements of a function body ran (their
\* yields were consumed by evaluate), two calls deep
C4_Witness ==
    /\ ev.mode = "debug" /\ ev.absorbed
    /\ ev.prog = "Factorial"
    /\ Len(SelectSeq(ev.k, LAMBDA f : f.f = "fcall")) = 2
    /\ Len(Steps(ev)) = 1

(***************************************************************************)
(* C5.  Once the stop flag is set (while the evaluator is suspended; the   *)
(* driver resolves a pending input with null), the evaluator makes no      *)
(* display callback (the input-cancelled message included) and no input    *)
(* request; at a statement boundary, at the head of an Input loop and on   *)
(* a null input it throws the Stopped error; and it ends within a few      *)
(* transitions, also inside a loop that would not terminate.               *)
(***************************************************************************)
AtPoll(m) ==
    \/ Head(m.k).f \in {"stmt", "input"}
    \/ Head(m.k).f = "inputResolved" /\ Head(m.k).rawInput.isNull

C5_NoCallback == (stopExecutionRef' /\ ev' # ev) => (ev'.call = NoCall /\ Callbacks(ev') = Callbacks(ev))

C5_AbortsAtPoll ==
    (stopExecutionRef /\ stopExecutionRef' /\ ev.status = "running" /\ ev' # ev /\ AtPoll(ev)) =>
        (ev'.status = "thrown" /\ ev'.error = ProgramStoppedError)

\* The evaluator is scheduled until it ends once the flag is set (see
\* EvaluatorStep): it ends within MaxAfterStop transitions.
MaxAfterStop == 16

C5_Ends == ev.afterStop <= MaxAfterStop

C5_StopAborts == [][C5_NoCallback /\ C5_AbortsAtPoll]_vars /\ []C5_Ends

\* the endless While loop, stopped after it had displayed twice
C5_Witness ==
    /\ ev.prog = "InfiniteLoop" /\ stopExecutionRef
    /\ ev.status = "thrown" /\ ev.error = ProgramStoppedError
    /\ Len(Displayed(ev)) = 2

(***************************************************************************)
(* C6.  Whenever the evaluator has thrown an InterpreterError (nobody      *)
(* asked it to stop) and the driver's code waiting for it has run, the     *)
(* output holds exactly one line `Error on line <N>: <message>`, the       *)
(* error line is N, and the driver is idle.                                *)
(***************************************************************************)
Count(seq, x) == Cardinality({i \in 1..Len(seq) : seq[i] = x})

Idle == ~isRunning /\ ~isDebugMode /\ ~isPaused /\ ~debuggerIterator

C6_ErrorSurfaced ==
    (ev.status = "thrown" /\ ev.error.kind = "InterpreterError" /\ ~stopExecutionRef
        /\ waiter = "none") =>
        /\ Count(output, CatchLine(ev.error)) = 1
        /\ errorLine = ev.error.lineNumber
        /\ Idle

(***************************************************************************)
(* C7.  Whenever the user has pressed Stop and the stopped evaluator and   *)
(* the driver's code waiting for it have run, the output holds exactly     *)
(* one line `Program stopped by user.` and no line `Program finished.`,    *)
(* and the driver is idle.                                                 *)
(***************************************************************************)
C7_StopSurfaced ==
    (stopExecutionRef /\ ev.status \in {"done", "thrown"} /\ waiter = "none") =>
        /\ Count(output, "Program stopped by user.") = 1
        /\ Count(output, "Program finished.") = 0
        /\ Idle

(***************************************************************************)
(* C8.  A by-reference parameter is the caller's variable: when            *)
(* executeCallGenerator has bound it, the callee's name denotes the very   *)
(* entry the argument denotes in the caller.  So Call swap(a, b) with      *)
(* a = 1, b = 2 leaves a = 2, b = 1 in the caller, and a value read by     *)
(* Input through a reference that was passed on twice, then incremented    *)
(* through the first reference, is the caller's value after the call.      *)
(***************************************************************************)
C8_ReferenceAliases ==
    /\ (ev.status = "running" /\ Head(ev.k).f = "bind") =>
          \A j \in 1..(Head(ev.k).i - 1) :
              Head(ev.k).callee.parameters[j].isReference =>
                  /\ EnvHas(ev, Head(ev.k).calleeEnv, toLowerCase(Head(ev.k).callee.parameters[j].name))
                  /\ EnvGet(ev, Head(ev.k).calleeEnv, toLowerCase(Head(ev.k).callee.parameters[j].name))
                        = getEntry(ev, ev.environment, Head(ev.k).args[j].name)
    /\ (ev.prog = "Swap" /\ ev.status = "done") => Displayed(ev) = <<"2 1">>
    /\ (ev.prog = "Swap" /\ ev.status = "yielded" /\ ev.yielded.lineNumber = 10) =>
          ev.yielded.scope = ("a" :> NumV(2)) @@ ("b" :> NumV(1))
    /\ (ev.prog = "RefInput" /\ ev.status = "done") =>
          /\ replies # <<>>
          /\ IntegerPattern(Trim(Last(replies)))
          /\ Last(Displayed(ev)) = ToString(parseInt(Trim(Last(replies))) + 1)
    /\ (ev.prog = "RefInput" /\ ev.status = "yielded" /\ ev.yielded.lineNumber = 11) =>
          ev.yielded.scope = ("feet" :> NumV(parseInt(Trim(Last(replies))) + 1))

\* swap has run and main displays the exchanged values
C8_Witness ==
    /\ ev.prog = "Swap" /\ ev.status = "done"
    /\ output = <<"Running program...", "2 1", "Program finished.">>

InnermostBlockEnv(m) ==
    IF \E i \in 1..Len(m.k) : m.k[i].f = "block"
    THEN m.k[CHOOSE i \in 1..Len(m.k) : m.k[i].f = "block" /\ \A j \in 1..(i - 1) : m.k[j].f # "block"].environment
    ELSE 1

C11_ArgumentsInTurn ==
    /\ (ev.k # <<>> /\ Head(ev.k).f = "all") =>
          \A i, j \in 1..Len(Head(ev.k).promises) :
              (i < j /\ Head(ev.k).promises[j].state # "pending") =>
                  Head(ev.k).promises[i].state = "fulfilled"
    /\ (ev.k # <<>> /\ Head(ev.k).f = "builtin") => ev.environment = Head(ev.k).callerEnv
    /\ (ev.prog = "Concurrent" /\ Finished) =>
          /\ ev.status = "thrown"
          /\ ev.error = NotFound("s", 8)
          /\ Displayed(ev) = <<"ab">>

(***************************************************************************)
(* C12.  The right operand of And is evaluated only when the left one is   *)
(* truthy, and the right operand of Or only when the left one is falsy;    *)
(* the result of And and Or is a boolean.  So with d = 0 the condition     *)
(* d != 0 And 10 / d > 1 is false without a division, the program goes on  *)
(* and Display 0 Or 5 shows true.                                          *)
(***************************************************************************)
C12_ShortCircuit ==
    /\ (Len(ev.k) >= 2 /\ ev.k[1].f = "eval" /\ ev.k[2].f = "binary"
            /\ toLowerCase(ev.k[2].expr.operator) \in {"and", "or"}) =>
          Truthy(TopV(ev, 0)) = (toLowerCase(ev.k[2].expr.operator) = "and")
    /\ (ev.status = "running" /\ ev.k # <<>> /\ Head(ev.k).f = "binary"
            /\ toLowerCase(Head(ev.k).expr.operator) \in {"and", "or"}) =>
          BinaryOp(Head(ev.k).expr, TopV(ev, 1), TopV(ev, 0)).value.t = "bool"
    /\ (ev.prog = "ShortCircuit" /\ Finished) =>
          /\ ev.status = "done"
          /\ Displayed(ev) = <<"true">>

(***************************************************************************)
(* C13.  An Input statement whose target is Integer or Real asks again     *)
(* after every line that is not a number of that type, displaying the      *)
(* reprompt message once per such line, and ends with the first valid      *)
(* line: after k invalid lines and one valid line it has made k + 1        *)
(* requests and k reprompts; the variable keeps its value while the        *)
(* statement waits and holds the parsed number afterwards.  With the       *)
(* lines x and 7 for an Integer there is one reprompt and the variable     *)
(* displays as 7.                                                          *)
(***************************************************************************)
Requests(m, line) ==
    Cardinality({i \in 1..Len(m.trace) : m.trace[i].ev = "input" /\ m.trace[i].lineNumber = line})

Reprompts(m, line, dataType) ==
    Cardinality({i \in 1..Len(m.trace) :
                    /\ m.trace[i].ev = "display" /\ m.trace[i].lineNumber = line
                    /\ m.trace[i].data = <<StrV("Invalid input. Please enter a valid " \o dataType \o ".")>>})

Assigned(m, line) == \E i \in 1..Len(m.trace) : m.trace[i].ev = "assign" /\ m.trace[i].lineNumber = line

\* the Input statement of `line` in InputRetry: its target, the type and
\* the initial value of the target, and the number of replies given before
\* the statement began
C13_Statement(line, name, dataType, initial, before) ==
    LET value == ev.slots[getEntry(ev, 1, name)].value
        requests == Requests(ev, line)
        reprompts == Reprompts(ev, line, dataType)
        Valid(j) == validateAndParseInput(replies[before + j], dataType).isValid
    IN  /\ reprompts <= requests /\ requests <= reprompts + 1
        /\ (ev.status = "awaiting" /\ Head(ev.k).stmt.lineNumber = line) =>
              /\ requests = reprompts + 1
              /\ Len(replies) = before + reprompts
              /\ \A j \in 1..reprompts : ~Valid(j)
              /\ value = initial
        /\ Assigned(ev, line) =>
              /\ requests = reprompts + 1
              /\ \A j \in 1..reprompts : ~Valid(j)
              /\ Valid(requests)
              /\ RealPattern(Trim(replies[before + requests]))
              /\ dataType = "integer" => value = NumV(parseInt(Trim(replies[before + requests])))
              /\ value = parseFloat(Trim(replies[before + requests]))

C13_Reprompt ==
    (ev.prog = "InputRetry" /\ ~stopExecutionRef) =>
        /\ C13_Statement(3, "n", "integer", NumV(5), 0)
        /\ C13_Statement(5, "r", "real", NumV(6), Requests(ev, 3))
        /\ (ev.status = "done" /\ SubSeq(replies, 1, 2) = << <<"x">>, <<"7">> >>) =>
              SubSeq(Displayed(ev), 1, 2) = <<"Invalid input. Please enter a valid integer.", "7">>

\* the lines x, 7 and 3 were given: one reprompt, then n = 7 and r = 3
C13_Witness ==
    /\ ev.prog = "InputRetry" /\ ev.status = "done" /\ ~stopExecutionRef
    /\ replies = << <<"x">>, <<"7">>, <<"3">> >>
    /\ Displayed(ev) = <<"Invalid input. Please enter a valid integer.", "7", "3">>

(***************************************************************************)
(* C14.  When the host resolves an input request with null and             *)
(* shouldStop() returns false, the evaluator displays the cancellation     *)
(* message once, the Input statement is over without another request,      *)
(* no variable has changed, and the next statement follows: in InputRetry  *)
(* a cancelled Input n is followed by the Display of n, which shows the    *)
(* initial 5.                                                              *)
(***************************************************************************)
CancelMessage(identifier) == <<StrV("Input for " \o identifier \o " cancelled.")>>

C14_OnNull ==
    (/\ ev.status = "running" /\ ev.turn = 0
     /\ Head(ev.k).f = "inputResolved" /\ Head(ev.k).rawInput.isNull
     /\ ~stopExecutionRef /\ ev' # ev) =>
        /\ ev'.call = [cb |-> "display", arg |-> CancelMessage(Head(ev.k).stmt.identifier)]
        /\ Callbacks(ev') = Append(Callbacks(ev), ev'.call)
        /\ ev'.slots = ev.slots
        /\ ev'.k = Tail(ev.k)
        /\ ev'.status = IF Tail(ev.k) = <<>> THEN "done" ELSE "running"

C14_AfterNull ==
    (ev.prog = "InputRetry"
        /\ \E i \in 1..Len(ev.trace) : ev.trace[i] = Event("display", 3, CancelMessage("n"))) =>
        /\ Requests(ev, 3) = Reprompts(ev, 3, "integer") + 1
        /\ ~Assigned(ev, 3)
        /\ ev.slots[getEntry(ev, 1, "n")].value = NumV(5)
        /\ Count(ev.trace, Event("display", 3, CancelMessage("n"))) = 1
        /\ \A i \in 1..Len(Displayed(ev)) :
              Displayed(ev)[i] = "Input for n cancelled." =>
                  (i < Len(Displayed(ev)) => Displayed(ev)[i + 1] = "5")

C14_NullCancels == [][C14_OnNull]_vars /\ []C14_AfterNull

\* both inputs of InputRetry were cancelled and the program went on to the end
C14_Witness ==
    /\ ev.prog = "InputRetry" /\ ev.status = "done" /\ ~stopExecutionRef
    /\ Displayed(ev) = <<"Input for n cancelled.", "5", "Input for r cancelled.", "6">>

(***************************************************************************)
(* C15.  A constant keeps the value it was declared with, and the          *)
(* statement that assigns to it fails: a Set from a nested scope, a Set    *)
(* through a by-reference parameter bound to the constant, an Input into   *)
(* the constant (once a valid line is given) and a Set of an element of a  *)
(* constant array each end the program with an error on their line.        *)
(***************************************************************************)
CannotAssign(name, line) == InterpreterError("Cannot assign to constant \"" \o name \o "\".", line)

C15_ConstantsKept ==
    /\ \A i \in 1..Len(ev.slots) :
          (ev.prog \in {"ConstNested", "ConstRef", "ConstInput"} /\ ev.slots[i].isConstant) =>
              ev.slots[i].value = NumV(10)
    /\ (ev.prog = "ConstArray" /\ ev.slots # <<>>) =>
          /\ ev.slots[1].isConstant
          /\ ev.arrays[ev.slots[1].value.n] = <<NumV(1), NumV(2)>>
    /\ (ev.prog = "ConstNested" /\ Finished) =>
          (ev.status = "thrown" /\ ev.error = CannotAssign("limit", 3) /\ Displayed(ev) = <<>>)
    /\ (ev.prog = "ConstRef" /\ Finished) =>
          (ev.status = "thrown" /\ ev.error = CannotAssign("v", 2) /\ Displayed(ev) = <<>>)
    /\ (ev.prog = "ConstInput" /\ Finished) =>
          (ev.status = "thrown" /\ ev.error = CannotAssign("limit", 2))
    /\ (ev.prog = "ConstArray" /\ Finished) =>
          (ev.status = "thrown" /\ ev.error.lineNumber = 2 /\ Displayed(ev) = <<>>)

(***************************************************************************)
(* C16.  No scope holds two entries whose names are equal when compared    *)
(* in lower case.  Declaring Total where total exists in the same scope,   *)
(* or N in a module whose by-reference parameter is n, fails and leaves    *)
(* the existing variable as it was; declaring X in an if-branch where x    *)
(* is global succeeds, the branch sees 2, and after the branch x is 1.     *)
(***************************************************************************)
C16_NoRedeclaration ==
    /\ \A e \in 1..Len(ev.envs) : \A i, j \in 1..Len(ev.envs[e].values) :
          ev.envs[e].values[i].key = ev.envs[e].values[j].key => i = j
    /\ (ev.prog \in {"DupSame", "DupParam"} /\ ev.slots # <<>>) =>
          /\ Len(ev.slots) = 1
          /\ ev.slots[1] = [value |-> NumV(IF ev.prog = "DupSame" THEN 1 ELSE 7), isConstant |-> FALSE,
                            dataType |-> "integer",
                            originalName |-> IF ev.prog = "DupSame" THEN "total" ELSE "count"]
    /\ (ev.prog = "DupSame" /\ Finished) =>
          (ev.status = "thrown" /\ ev.error = AlreadyDefined("Total") /\ Displayed(ev) = <<>>)
    /\ (ev.prog = "DupParam" /\ Finished) =>
          (ev.status = "thrown" /\ ev.error = AlreadyDefined("N") /\ Displayed(ev) = <<>>)
    /\ (ev.prog = "Shadow" /\ Finished) => (ev.status = "done" /\ Displayed(ev) = <<"2", "1">>)
    /\ (ev.prog = "Shadow" /\ ev.status = "yielded" /\ ev.yielded.lineNumber = 4) =>
          (Len(ev.slots) = 2 /\ ev.slots[1].value = NumV(1) /\ ev.slots[2].value = NumV(2))

\* the declaration of Total has failed and total is still 1
C16_Witness ==
    /\ ev.prog = "DupSame" /\ ev.status = "thrown" /\ ~stopExecutionRef
    /\ ev.error = AlreadyDefined("Total")
    /\ Len(ev.slots) = 1 /\ ev.slots[1].value = NumV(1)

(***************************************************************************)
(* C17.  An error the evaluator throws (the Stopped error aside) is an     *)
(* InterpreterError with the line of the failing construct: the undeclared *)
(* q of ErrorLater on line 2, the y of ScopeRead and ScopeWrite on lines   *)
(* 4 and 3, the assignments to a constant on lines 3, 2 and 2, and the     *)
(* second declarations of DupSame and DupParam on line 2.  When a run has  *)
(* ended with it the driver's error line is that line and the output ends  *)
(* with `Error on line <N>: <message>`.                                    *)
(***************************************************************************)
C17_Line ==
    ("ErrorLater" :> 2) @@ ("ScopeRead" :> 4) @@ ("ScopeWrite" :> 3) @@ ("ConstNested" :> 3) @@
    ("ConstRef" :> 2) @@ ("ConstInput" :> 2) @@ ("DupSame" :> 2) @@ ("DupParam" :> 2)

C17_ErrorsCarryLine ==
    (ev.status = "thrown" /\ ev.error.kind # "ProgramStoppedError") =>
        /\ ev.error.kind = "InterpreterError"
        /\ ev.error.lineNumber >= 1
        /\ ev.prog \in DOMAIN C17_Line => ev.error.lineNumber = C17_Line[ev.prog]
        /\ (ev.mode = "run" /\ waiter = "none" /\ ~stopExecutionRef) =>
              /\ errorLine = ev.error.lineNumber
              /\ Last(output) = "Error on line " \o ToString(ev.error.lineNumber) \o ": "
                                    \o ev.error.message

(***************************************************************************)
(* C18.  The Return signal never leaves the evaluator as an error: the     *)
(* generator never throws a ReturnError, and the driver never shows        *)
(* `Runtime Error: Return value`, whether the Return is in a function, in  *)
(* a module (ReturnMain) or at top level.                                  *)
(***************************************************************************)
C18_ReturnIsNoError ==
    /\ ev.status = "thrown" => ev.error.kind # "ReturnError"
    /\ \A i \in 1..Len(output) : output[i] # CatchLine(ReturnError(NullV))

(***************************************************************************)
(* C19.  In a program that declares a module: without a module main       *)
(* (in any letter case) the run fails before anything has been stepped,    *)
(* executed or defined; with one, the statements executed are first the    *)
(* top-level variable declarations, in source order, then the first        *)
(* statement of main, and main has no parameters bound.  In Globals the    *)
(* declarations of lines 1 and 8 run before main displays g + h = 3, and   *)
(* the body of helper, which nobody calls, never runs.                     *)
(***************************************************************************)
IsExec(e) == e.ev = "exec"

\* the lines of the statements executed at the head of the run
C19_Head(stmts) ==
    LET declarations == SelectSeq(stmts, IsVariableDeclaration)
        main == Declared(stmts, "MODULE_STATEMENT", "main")
    IN  [i \in 1..Len(declarations) |-> declarations[i].lineNumber]
            \o (IF main.body = <<>> THEN <<>> ELSE <<main.body[1].lineNumber>>)

C19_MainAfterGlobals ==
    /\ (ev.status # "none" /\ \E i \in 1..Len(Statements(ev)) : Statements(ev)[i].type = "MODULE_STATEMENT") =>
          IF ~IsDeclared(Statements(ev), "MODULE_STATEMENT", "main")
          THEN /\ ev.trace = <<>>
               /\ ev.status \in {"running", "thrown"}
               /\ Finished =>
                     ev.error = InterpreterError("A 'main' module is required when other modules are defined.", 1)
          ELSE LET executed == SelectSeq(ev.trace, IsExec)
                   head == C19_Head(Statements(ev))
               IN  \A i \in 1..Len(executed) : i <= Len(head) => executed[i].lineNumber = head[i]
    /\ ev.prog = "Globals" =>
          /\ \A i \in 1..Len(ev.trace) : ev.trace[i].lineNumber # 3
          /\ Finished => (ev.status = "done" /\ Displayed(ev) = <<"3">>)

\* Globals has run: both declarations, then main
C19_Witness ==
    /\ ev.prog = "Globals" /\ ev.status = "done" /\ ~stopExecutionRef
    /\ [i \in 1..3 |-> SelectSeq(ev.trace, IsExec)[i].lineNumber] = <<1, 8, 6>>
    /\ Displayed(ev) = <<"3">>

(***************************************************************************)
(* C20.  A For loop evaluates its bounds once, defines the counter as      *)
(* start and repeats while the counter is at most end, running the body    *)
(* in a new nested scope and then adding 1 to the counter: whenever the    *)
(* loop tests its bound, the value it tests is the counter variable, as    *)
(* defined before the first pass and as the body left it plus 1 after      *)
(* each later pass.  Summing i for i = 1 To 5 displays 15 and the loop     *)
(* from 3 To 1 never runs its body; a body that raises the variable of     *)
(* the end bound and declares a local still runs for 1 and 2, in that      *)
(* order; a body that sets the counter to 10 runs once.                    *)
(***************************************************************************)
\* the loop of the frame f is at its first test: scope.define was the last
\* thing that happened
C20_FirstTest(m, f) ==
    /\ m.trace # <<>>
    /\ m.trace[Len(m.trace)] = Event("define", f.stmt.lineNumber, f.stmt.identifier)

C20_Counter(m, f) == m.slots[getEntry(m, f.scope, f.stmt.identifier)].value

C20_ForLoop ==
    /\ (ev.status = "running" /\ ev.k # <<>> /\ Head(ev.k).f = "for") =>
          LET f == Head(ev.k)
          IN  f.i = C20_Counter(ev, f).n + (IF C20_FirstTest(ev, f) THEN 0 ELSE 1)
    /\ (ev.prog = "ForSum" /\ Finished) => (ev.status = "done" /\ Displayed(ev) = <<"15">>)
    /\ (ev.prog = "ForOnce" /\ Finished) => (ev.status = "done" /\ Displayed(ev) = <<"1", "2", "4">>)
    /\ (ev.prog = "ForAssign" /\ Finished) => (ev.status = "done" /\ Displayed(ev) = <<"1">>)

(***************************************************************************)
(* C21.  Every activation of a user function has its own parameter and     *)
(* local slots, and a call that returns leaves the caller's as they were   *)
(* and the caller's Environment current.  In Recursive, f(4) with          *)
(* f(n) = f(n - 1) * n, the j-th activation in progress has n = 5 - j at   *)
(* every moment, its local copy of n is equal, the value it got from the   *)
(* nested call is (4 - j)!, the current Environment is the one of the      *)
(* innermost block in progress, and 24 is displayed; Factorial's f(2)      *)
(* displays 2.                                                             *)
(***************************************************************************)
RECURSIVE C21_Factorial(_)
C21_Factorial(n) == IF n = 0 THEN 1 ELSE n * C21_Factorial(n - 1)

\* the Environments in progress that hold a parameter n, outermost first
C21_Activations(m) ==
    SelectSeq([e \in 1..Len(m.envs) |-> e], LAMBDA e : EnvHas(m, e, "n"))

C21_Local(m, e, name) == m.slots[EnvGet(m, e, name)].value

C22_OnDisplay ==
    (/\ ev.status = "running" /\ ev.turn = 0 /\ ev.k # <<>> /\ Head(ev.k).f = "display"
     /\ ev'.prog = ev.prog /\ ev'.mode = ev.mode /\ ev' # ev) =>
        LET f == Head(ev.k)
            n == Len(f.stmt.values)
            evaluatedValues == SubSeq(ev.vs, Len(ev.vs) - n + 1, Len(ev.vs))
        IN  IF f.i > n
            THEN /\ ev'.trace = Append(ev.trace, Event("display", f.stmt.lineNumber, evaluatedValues))
                 /\ ev'.call = [cb |-> "display", arg |-> evaluatedValues]
                 /\ ev'.k = Tail(ev.k)
                 /\ \A j \in 1..n : f.stmt.values[j].type = "TAP_MARKER" => evaluatedValues[j] = StrV("    ")
            ELSE /\ ev'.call.cb # "display"
                 /\ SelectSeq(ev'.trace, IsDisplay) = SelectSeq(ev.trace, IsDisplay)

C22_Programs ==
    /\ (ev.prog = "Hello" /\ Finished) =>
          /\ ev.status = "done"
          /\ SelectSeq(ev.trace, IsDisplay) = <<Event("display", 2, <<StrV("Hello, World!")>>)>>
    /\ ev.prog = "Hello" => Len(SelectSeq(ev.trace, IsDisplay)) <= 1
    /\ (ev.prog = "Tapped" /\ Finished) =>
          /\ ev.status = "done"
          /\ SelectSeq(ev.trace, IsDisplay)
                = <<Event("display", 7, <<NumV(1), StrV("    "), NumV(2), StrV("    "), StrV("x")>>)>>
    /\ ev.prog = "Tapped" => Len(SelectSeq(ev.trace, IsDisplay)) <= 1

C22_OneCallback == [][C22_OnDisplay]_vars /\ []C22_Programs

\* the Display of Tapped has made its callback
C22_Witness ==
    /\ ev.prog = "Tapped" /\ ev.status = "done" /\ ~stopExecutionRef
    /\ ev.trace[Len(ev.trace)]
          = Event("display", 7, <<NumV(1), StrV("    "), NumV(2), StrV("    "), StrV("x")>>)

(***************************************************************************)
(* C23.  A call whose number of arguments differs from the callee's        *)
(* number of parameters, and a call that gives a by-reference parameter    *)
(* anything but an identifier, fail at once with an error on the line of   *)
(* the call, and no statement of the callee runs: Call show(1) for a       *)
(* module of two parameters, twice(1, 2) for a function of one, and        *)
(* Call bump(v, v + 1) whose second parameter is by reference each end     *)
(* the program with nothing displayed and the caller's v unchanged.        *)
(***************************************************************************)
Expected(parameters, args, line) ==
    InterpreterError("Expected " \o ToString(parameters) \o " arguments but got " \o ToString(args) \o ".", line)

MustBeVariable(name, line) ==
    InterpreterError("Argument for reference parameter \"" \o name \o "\" must be a variable.", line)

C23_OnCall ==
    (/\ ev.status = "running" /\ ev.turn = 0 /\ ev.k # <<>> /\ ev' # ev
     /\ ev'.prog = ev.prog /\ ev'.mode = ev.mode /\ ~stopExecutionRef) =>
        LET f == Head(ev.k)
        IN  /\ (f.f = "call" /\ Len(f.args) # Len(f.callee.parameters)) =>
                  /\ ev'.status = "thrown"
                  /\ ev'.error = Expected(Len(f.callee.parameters), Len(f.args), f.lineNumber)
            /\ (/\ f.f = "bind" /\ f.i <= Len(f.callee.parameters)
                /\ f.callee.parameters[f.i].isReference /\ f.args[f.i].type # "IDENTIFIER") =>
                  /\ ev'.status = "thrown"
                  /\ ev'.error = MustBeVariable(f.callee.parameters[f.i].name, f.lineNumber)

C23_Programs ==
    /\ (ev.prog = "ArityCall" /\ Finished) =>
          (ev.status = "thrown" /\ ev.error = Expected(2, 1, 5) /\ Displayed(ev) = <<>>)
    /\ (ev.prog = "ArityFunction" /\ Finished) =>
          (ev.status = "thrown" /\ ev.error = Expected(1, 2, 6) /\ Displayed(ev) = <<>>)
    /\ (ev.prog = "RefExpression" /\ Finished) =>
          (ev.status = "thrown" /\ ev.error = MustBeVariable("x", 7) /\ Displayed(ev) = <<>>)
    /\ ev.prog \in {"ArityCall", "ArityFunction", "RefExpression"} =>
          /\ \A i \in 1..Len(ev.k) : ev.k[i].f = "block" => ev.k[i].statements = Statements(ev)[2].body
          /\ \A i \in 1..Len(ev.slots) : ev.slots[i].value = NumV(1)

C23_CallChecked == [][C23_OnCall]_vars /\ []C23_Programs

\* bump's by-value parameter was bound and the call then failed on the
\* by-reference one
C23_Witness ==
    /\ ev.prog = "RefExpression" /\ ev.status = "thrown" /\ ~stopExecutionRef
    /\ ev.error = MustBeVariable("x", 7)
    /\ \E i \in 1..Len(ev.trace) : ev.trace[i] = Event("define", 7, "a")

(***************************************************************************)
(* C24.  A read or a write of an array element whose index is not an       *)
(* integer from 0 to length - 1 fails with an error on its line and        *)
(* changes no array and no variable; a write with a valid index changes    *)
(* the indexed element alone, and a read with one yields that element.     *)
(* With i read from the input (7, 3 or -2), Set a[i] = 9 on an array of    *)
(* four succeeds for 3 only, after which 1, 2, 3, 9 and the other          *)
(* variable's 5 are displayed and Set a[i / 2] fails; Display a[i - 3]     *)
(* shows 1 for 3 and fails for index 4 and index -5.                       *)
(***************************************************************************)
C24_ValidIndex(m, array, index) ==
    index.t = "num" /\ index.n >= 0 /\ index.n < Len(m.arrays[array.n])

C24_OnAccess ==
    (/\ ev.status = "running" /\ ev.turn = 0 /\ ev.k # <<>> /\ ev' # ev
     /\ ev'.prog = ev.prog /\ ev'.mode = ev.mode /\ ~stopExecutionRef
     /\ Head(ev.k).f \in {"index", "assignElement"} /\ TopV(ev, 1).t = "arr") =>
        LET f == Head(ev.k)
            array == TopV(ev, 1)
            index == TopV(ev, 0)
            line == IF f.f = "index" THEN f.expr.lineNumber ELSE f.stmt.lvalue.lineNumber
        IN  IF ~C24_ValidIndex(ev, array, index)
            THEN /\ ev'.status = "thrown"
                 /\ ev'.error.kind = "InterpreterError" /\ ev'.error.lineNumber = line
                 /\ ev'.arrays = ev.arrays
                 /\ \A i \in 1..Len(ev'.slots) : ev'.slots[i] = ev.slots[i]
            ELSE IF f.f = "assignElement"
            THEN /\ ev'.status = "running"
                 /\ ev'.arrays = [ev.arrays EXCEPT ![array.n][index.n + 1] = TopV(ev, 2)]
                 /\ ev'.slots = ev.slots
            ELSE /\ ev'.status = "running"
                 /\ ev'.vs = Append(SubSeq(ev.vs, 1, Len(ev.vs) - 2), ev.arrays[array.n][index.n + 1])
                 /\ ev'.arrays = ev.arrays /\ ev'.slots = ev.slots

C24_Shown(line) == SelectSeq(ev.trace, LAMBDA e : e.ev = "display" /\ e.lineNumber = line)

C24_Programs ==
    /\ (ev.prog = "ArrayWrite" /\ Finished) =>
          /\ ev.status = "thrown" /\ ev.error.lineNumber \in {4, 6}
          /\ ev.error.lineNumber = 4 =>
                (ev.arrays = <<<<NumV(1), NumV(2), NumV(3), NumV(4)>>>> /\ C24_Shown(5) = <<>>)
          /\ ev.error.lineNumber = 6 =>
                /\ ev.arrays = <<<<NumV(1), NumV(2), NumV(3), NumV(9)>>>>
                /\ C24_Shown(5) = <<Event("display", 5, <<NumV(1), NumV(2), NumV(3), NumV(9), NumV(5)>>)>>
    /\ (ev.prog = "ArrayRead" /\ Finished) =>
          /\ ev.status = "thrown" /\ ev.error.lineNumber \in {4, 5}
          /\ ev.arrays = <<<<NumV(1), NumV(2), NumV(3), NumV(4)>>>>
          /\ C24_Shown(4) = IF ev.error.lineNumber = 5 THEN <<Event("display", 4, <<NumV(1)>>)>> ELSE <<>>

C24_IndexChecked == [][C24_OnAccess]_vars /\ []C24_Programs

\* the write with index 3 was made and the write with index 1.5 has failed
C24_Witness ==
    /\ ev.prog = "ArrayWrite" /\ ev.status = "thrown" /\ ~stopExecutionRef
    /\ ev.error.lineNumber = 6
    /\ ev.arrays = <<<<NumV(1), NumV(2), NumV(3), NumV(9)>>>>

(***************************************************************************)
(* C25.  Spelling a keyword or an identifier of a program in another       *)
(* letter case changes neither the AST nor what is displayed and asked:    *)
(* Declare INTEGER n for Declare integer n, and Input N for Input n, give  *)
(* the AST of the program in lower case, and with the same input lines     *)
(* the same display values and the same prompts.                           *)
(***************************************************************************)
C25_CaseFolding ==
    /\ (ev.prog \in {"CaseKeyword", "CaseIdentifier"} /\ ev.status # "none") =>
          Statements(ev) = Programs["CaseLower"]
    /\ (ev.prog \in {"CaseKeyword", "CaseIdentifier"} /\ Finished) =>
          Callbacks(ev) = Callbacks(run("CaseLower", replies))

(***************************************************************************)
(* C27.  The value of a call of a user function is the value of the first  *)
(* Return executed in its body: the Return, at any depth of blocks, ends   *)
(* the activation at once, with everything the activation had in progress  *)
(* discarded and the value handed to the caller of the function; and a     *)
(* body that ends without a Return raises the error `did not return a      *)
(* value` on the line of the call.  In ReturnNested, pick(1) returns 10    *)
(* from an If inside a While after one turn of the loop, so that the       *)
(* global counter is 1 and 10 and 1 are displayed, and pick(0), whose      *)
(* loop is skipped, adds 100 and fails on line 13.                         *)
(***************************************************************************)
\* the position in k of the innermost function call in progress
C27_Call(k) == CHOOSE i \in 1..Len(k) : k[i].f = "fcall" /\ \A j \in 1..(i - 1) : k[j].f # "fcall"

C27_OnReturn ==
    (/\ ev.status = "running" /\ ev.turn = 0 /\ ev.k # <<>> /\ ev' # ev
     /\ ev'.prog = ev.prog /\ ev'.mode = ev.mode /\ ~stopExecutionRef
     /\ Head(ev.k).f = "return" /\ InFunctionCall(ev.k)) =>
        LET i == C27_Call(ev.k)
        IN  /\ ev'.status = "running"
            /\ ev'.k = SubSeq(ev.k, i + 1, Len(ev.k))
            /\ ev'.vs = Append(SubSeq(ev.vs, 1, ev.k[i].vsBase), TopV(ev, 0))
            /\ ev'.trace = ev.trace

C27_OnEnd ==
    (/\ ev.status = "running" /\ ev.turn = 0 /\ ev.k # <<>> /\ ev' # ev
     /\ ev'.prog = ev.prog /\ ev'.mode = ev.mode /\ ~stopExecutionRef
     /\ Head(ev.k).f = "fcall") =>
        /\ ev'.status = "thrown"
        /\ ev'.error = InterpreterError("Function \"" \o Head(ev.k).name \o "\" did not return a value.",
                                        Head(ev.k).lineNumber)
        /\ ev'.trace = ev.trace

C27_Global(m, name) == m.slots[EnvGet(m, 1, name)].value

C27_Programs ==
    /\ (ev.prog = "ReturnNested" /\ EnvHas(ev, 1, "c")) =>
          /\ C27_Global(ev, "c") \in {NumV(0), NumV(1), NumV(101)}
          /\ C27_Global(ev, "c") = NumV(101) => Displayed(ev) = <<"101">>
    /\ ev.prog = "ReturnNested" => Displayed(ev) \in {<<>>, <<"101">>}
    /\ (ev.prog = "ReturnNested" /\ Finished) =>
          /\ ev.status = "thrown"
          /\ ev.error = InterpreterError("Function \"pick\" did not return a value.", 13)
          /\ Displayed(ev) = <<"101">>
    /\ (ev.prog = "ForReturn" /\ Finished) => (ev.status = "done" /\ Displayed(ev) = <<"27">>)

C27_FirstReturn == [][C27_OnReturn /\ C27_OnEnd]_vars /\ []C27_Programs

\* pick(1) has returned from inside the loop and pick(0) has ended without
\* a Return
C27_Witness ==
    /\ ev.prog = "ReturnNested" /\ ev.status = "thrown" /\ ~stopExecutionRef
    /\ ev.error.lineNumber = 13
    /\ Displayed(ev) = <<"101">>

(***************************************************************************)
(* C28.  A by-value parameter is a new slot of the callee: what the callee *)
(* assigns to the parameter, or to an element of an array passed by value, *)
(* leaves the caller's variable and its elements as they were.  In         *)
(* ByValue the callee sets its parameter v and the element 0 of its        *)
(* parameter a to 9: while the call is in progress and after it, the       *)
(* caller's x is 1 and its b is 1, 2, and 1 and then 1, 2 are displayed.   *)
(***************************************************************************)
\* the Environment of main's block, once x and b are declared
C28_Caller(m) == CHOOSE e \in 1..Len(m.envs) : EnvHas(m, e, "b")

C28_Declared(m) == \E e \in 1..Len(m.envs) : EnvHas(m, e, "b")

C28_CallerScalar ==
    /\ (ev.prog = "ByValue" /\ C28_Declared(ev)) =>
          ev.slots[EnvGet(ev, C28_Caller(ev), "x")].value = NumV(1)
    /\ (ev.prog = "ByValue" /\ Finished) =>
          (ev.status = "done" /\ Len(Displayed(ev)) = 2 /\ Displayed(ev)[1] = "1")

C28_CallerArray ==
    /\ (ev.prog = "ByValue" /\ C28_Declared(ev)) =>
          ev.arrays[ev.slots[EnvGet(ev, C28_Caller(ev), "b")].value.n] = <<NumV(1), NumV(2)>>
    /\ (ev.prog = "ByValue" /\ Finished) => Displayed(ev)[2] = "12"

C28_ByValue == C28_CallerScalar /\ C28_CallerArray

(***************************************************************************)
(* C29.  Binding a by-value parameter declared without a type succeeds for *)
(* every argument expression: for a bare identifier the slot takes the     *)
(* declared type of the caller's slot, and for any other expression the    *)
(* slot is defined and no error is raised.  In AutoParam, show(v) is       *)
(* called with the String variable s, whose slot type v's slot takes, and  *)
(* with 1 + 2: a and 3 are displayed and the program ends normally.        *)
(***************************************************************************)
\* an untyped parameter v bound to the caller's String variable has its type
C29_IdentifierCopies ==
    /\ (ev.prog = "AutoParam" /\ ev.status # "none") =>
          \A e \in 1..Len(ev.envs) :
              EnvHas(ev, e, "v") =>
                  /\ ev.slots[EnvGet(ev, e, "v")].value = StrV("a")
                  /\ ev.slots[EnvGet(ev, e, "v")].dataType = "string"
    /\ (ev.prog = "AutoParam" /\ Finished) => (Displayed(ev) # <<>> /\ Displayed(ev)[1] = "a")

C29_AutoBinds ==
    /\ C29_IdentifierCopies
    /\ (ev.prog = "AutoParam" /\ Finished) => (ev.status = "done" /\ Displayed(ev) = <<"a", "3">>)

(***************************************************************************)
(* C30.  The counter of a For loop lives in a new scope of the loop: a     *)
(* variable of the same name declared outside is shadowed while the loop   *)
(* runs, is never assigned by the loop and holds after the loop the value  *)
(* it had before.  In ForShadow, i is 7 before For i = 1 To 2, whose body  *)
(* displays i and adds 10 to it: the outer i is 7 in every state, while    *)
(* the loop runs the name i resolves from the loop's scope, and from the   *)
(* scope of its body, to another slot, defined in the loop's scope, and    *)
(* 1, 2 and then 7 are displayed.                                          *)
(***************************************************************************)
\* the Environment of main's block in ForShadow: the first that holds an i
C30_Outer(m) == CHOOSE e \in 1..Len(m.envs) : EnvHas(m, e, "i") /\ \A d \in 1..(e - 1) : ~EnvHas(m, d, "i")

C30_Declared(m) == \E e \in 1..Len(m.envs) : EnvHas(m, e, "i")

\* the For loops in progress whose counter is defined
C30_Loops(m) == {j \in 1..Len(m.k) : m.k[j].f = "for"}

C30_LoopScope ==
    /\ (ev.prog = "ForShadow" /\ C30_Declared(ev)) =>
          /\ ev.slots[EnvGet(ev, C30_Outer(ev), "i")].value = NumV(7)
          /\ ev.slots[EnvGet(ev, C30_Outer(ev), "i")].dataType = "integer"
          /\ \A j \in C30_Loops(ev) :
                 /\ ev.k[j].scope # C30_Outer(ev)
                 /\ EnvHas(ev, ev.k[j].scope, "i")
                 /\ ev.envs[ev.k[j].scope].enclosing = C30_Outer(ev)
                 /\ getEntry(ev, ev.k[j].scope, "i") = EnvGet(ev, ev.k[j].scope, "i")
                 /\ getEntry(ev, ev.k[j].scope, "i") # EnvGet(ev, C30_Outer(ev), "i")
                 /\ (ev.status = "running" /\ ev.envs[ev.environment].enclosing = ev.k[j].scope) =>
                        getEntry(ev, ev.environment, "i") = EnvGet(ev, ev.k[j].scope, "i")
    /\ (ev.prog = "ForShadow" /\ Finished) =>
          (ev.status = "done" /\ Displayed(ev) = <<"1", "2", "7">>)
    /\ (ev.prog = "ForSum" /\ Finished) => Displayed(ev) = <<"15">>

\* the loop has ended after its body assigned the counter twice
C30_Witness ==
    /\ ev.prog = "ForShadow" /\ ev.status = "done" /\ ~stopExecutionRef
    /\ Displayed(ev) = <<"1", "2", "7">>

(***************************************************************************)
(* C31.  Parsing an If statement consumes exactly the tokens from its If   *)
(* to its matching End If: for every text with properly nested Ifs, the    *)
(* Parser yields the statements the text describes, without an error: a    *)
(* chain of Else Ifs is closed by one End If, and an Else block that is a  *)
(* statement list, also one that begins with a complete If ... End If, is  *)
(* the else branch of its If and is closed by that If's End If.            *)
(***************************************************************************)
RECURSIVE C31_BlockBeginsWithIf(_)
C31_AnyBeginsWithIf(list) == \E i \in 1..Len(list) : C31_BlockBeginsWithIf(list[i])

\* some Else block of the statement begins with an If
C31_BlockBeginsWithIf(text) ==
    \/ text.form = "block" /\ text.else[1].s = "if"
    \/ C31_AnyBeginsWithIf(text.then)
    \/ C31_AnyBeginsWithIf(text.else)

C31_ChainsAndPlainBlocks ==
    (ast.parsed /\ ~C31_AnyBeginsWithIf(code)) =>
        (ast.error = NoError /\ ast.statements = DescribedAll(code))

C31_IfMatched ==
    ast.parsed => (ast.error = NoError /\ ast.statements = DescribedAll(code))

(***************************************************************************)
(* C32.  The line number of every token is 1 plus the number of line feeds *)
(* that precede the token's first character in the text, also for a token  *)
(* that follows a two-word keyword whose words a line feed separates and   *)
(* for one that follows a string literal that contains a line feed.        *)
(***************************************************************************)
C32_LineFeedsBefore(at) == Cardinality({q \in 0..(at - 1) : atomAt(code, q) = "\n"})

\* a line feed inside a keyword or inside a string literal
C32_LineFeedInside ==
    \E i \in 1..Len(tokens) :
        \E q \in tokens[i].at..(Len(code) - 1) :
            /\ atomAt(code, q) = "\n"
            /\ \/ tokens[i].type = "END_IF" /\ q < tokens[i].at + keywordMatch(code, tokens[i].at, SORTED_KEYWORDS[2])
               \/ tokens[i].type = "STRING" /\ q < StringEnd(code, tokens[i].at + 1)

C32_PlainLines ==
    ~C32_LineFeedInside =>
        \A i \in 1..Len(tokens) :
            tokens[i].type # "EOF" => tokens[i].lineNumber = 1 + C32_LineFeedsBefore(tokens[i].at)

C32_LineNumbers ==
    \A i \in 1..Len(tokens) :
        tokens[i].type # "EOF" => tokens[i].lineNumber = 1 + C32_LineFeedsBefore(tokens[i].at)

(***************************************************************************)
(* C33. In the flowchart of a function every Return statement makes a      *)
(* process node labelled `Return <expr>` that has exactly one outgoing     *)
(* edge, to the end node of its own function, and the statements after     *)
(* the Return in the same block make no node.  The charts are laid out     *)
(* one after the other, so the chart of a node is the one of the last      *)
(* start node before it, and the function's end node follows its start     *)
(* node.  C33_Count is the number of nodes of a block when nothing after   *)
(* a Return in it makes a node.                                            *)
(***************************************************************************)
C33_StartOf(n) ==
    CHOOSE s \in 0..n : /\ flowchart.nodes[s + 1].type = "start"
                        /\ \A t \in (s + 1)..n : flowchart.nodes[t + 1].type # "start"

C33_InFunction(n) ==
    \E f \in 1..Len(ast.statements) :
        /\ ast.statements[f].type = "FUNCTION_DECLARATION"
        /\ flowchart.nodes[C33_StartOf(n) + 1].label = "Start Function " \o ast.statements[f].name

C33_IsReturn(n) == flowchart.nodes[n + 1].label = "Return x"

C33_Out(n) == {e \in 1..Len(flowchart.edges) : flowchart.edges[e].from = n}

RECURSIVE C33_Count(_)
C33_Count(block) ==
    IF block = <<>> THEN 0
    ELSE LET st == Head(block)
             own == CASE st.type = "IF_STATEMENT" -> 2 + C33_Count(st.thenBranch) + C33_Count(st.elseBranch)
                      [] st.type = "WHILE_STATEMENT" -> 1 + C33_Count(st.body)
                      [] st.type = "DO_UNTIL_STATEMENT" -> 2 + C33_Count(st.body)
                      [] st.type = "FOR_STATEMENT" -> 3 + C33_Count(st.body)
                      [] OTHER -> 1
         IN  IF st.type = "RETURN_STATEMENT" THEN 1 ELSE own + C33_Count(Tail(block))

C33_NodesOf(name) ==
    {n \in 0..(Len(flowchart.nodes) - 1) :
        flowchart.nodes[C33_StartOf(n) + 1].label = "Start Function " \o name}

C33_ReturnEnds ==
    (flowchart.built /\ flowchart.error = NoError) =>
        /\ \A n \in 0..(Len(flowchart.nodes) - 1) :
              (C33_IsReturn(n) /\ C33_InFunction(n)) =>
                  /\ flowchart.nodes[n + 1].type = "process"
                  /\ Cardinality(C33_Out(n)) = 1
                  /\ \A e \in C33_Out(n) :
                        /\ flowchart.edges[e].to = C33_StartOf(n) + 1
                        /\ flowchart.nodes[flowchart.edges[e].to + 1].type = "end"
        /\ \A f \in 1..Len(ast.statements) :
              ast.statements[f].type = "FUNCTION_DECLARATION" =>
                  Cardinality(C33_NodesOf(ast.statements[f].name))
                      = 2 + C33_Count(ast.statements[f].body)

\* a function charted whose body goes on after a Return, and a second
\* function with a Return of its own
C33_Witness ==
    /\ flowchart.built /\ flowchart.error = NoError
    /\ Len(ast.statements) = 4
    /\ ast.statements[4].body = <<ReturnStatement(Identifier("x", 1), 1),
                                  DisplayStatement(<<Identifier("a", 1)>>, 1)>>
    /\ \E n \in 0..(Len(flowchart.nodes) - 1) :
          /\ C33_IsReturn(n)
          /\ flowchart.nodes[C33_StartOf(n) + 1].label = "Start Function g"
          /\ C33_Out(n) # {}

(***************************************************************************)
(* C34.  When the stop flag is set while the debugger is paused at the     *)
(* step point of a statement S (handleStop then calls next() and nobody    *)
(* awaits it), the resumed evaluator aborts before S executes: it defines  *)
(* and assigns no variable, writes no array element and calls no module.   *)
(* C34_OnlyS is what the poll in front of every statement gives: the only  *)
(* statement that starts after the stop is S itself.                       *)
(***************************************************************************)
C34_Resumed == stopExecutionRef /\ stopExecutionRef' /\ waiter = "detached" /\ ev' # ev

C34_OnlyS ==
    [][ (C34_Resumed /\ ev'.trace # ev.trace /\ Last(ev'.trace).ev = "exec") =>
            /\ ev.afterStop = 0
            /\ Head(ev.k).f = "exec"
            /\ Last(ev'.trace).lineNumber = ev.yielded.lineNumber
      ]_vars

C34_AbortsBeforeS ==
    [][ C34_Resumed =>
            /\ ev'.slots = ev.slots
            /\ ev'.arrays = ev.arrays
            /\ ev.k # <<>> => Head(ev.k).f # "call"
      ]_vars

(***************************************************************************)
(* C35.  The input rendezvous never loses a wake-up: whenever the          *)
(* evaluator is suspended on an input request the driver holds the         *)
(* resolver of exactly that request (inputResolverRef is set and           *)
(* isAwaitingInput is true), so no second request is pending beside it.    *)
(* C35_OneAtATime is the statement for the programs that never evaluate    *)
(* two arguments of a built-in at once; C35_Rendezvous is the statement    *)
(* for every program.                                                      *)
(***************************************************************************)
\* the input requests the evaluator is suspended on
C35_Pending(m) ==
    IF m.k = <<>> \/ m.status \notin {"awaiting", "running"} THEN 0
    ELSE IF Head(m.k).f = "all"
    THEN Cardinality({j \in 1..Len(Head(m.k).promises) : Head(m.k).promises[j].state = "awaiting"})
    ELSE IF m.status = "awaiting" THEN 1 ELSE 0

C35_Held == C35_Pending(ev) > 0 => (C35_Pending(ev) = 1 /\ inputResolverRef /\ isAwaitingInput)

C35_OneAtATime == ~ev.par => C35_Held

C35_Rendezvous == C35_Held

(***************************************************************************)
(* C36.  At most one evaluator is live: once Stop has returned the driver  *)
(* to idle the stopped evaluator makes no display and no input callback,   *)
(* and when Run or Debug starts a new evaluator and resets the stop flag   *)
(* the previous evaluator has terminated (it has returned or thrown).      *)
(* C36_Sequential is the statement for the evaluators that never           *)
(* evaluated two arguments of a built-in at once; C36_OneLive is the       *)
(* statement for every evaluator.                                          *)
(***************************************************************************)
C36_Quiet == (stopExecutionRef /\ stopExecutionRef' /\ ev' # ev) => ev'.call = NoCall

C36_Starts == ~isRunning /\ isRunning'

C36_Terminated(m) == m.status \in {"none", "done", "thrown"} /\ m.orphans = <<>>

C36_Sequential == [][C36_Quiet /\ ((C36_Starts /\ ~ev.par) => C36_Terminated(ev))]_vars

C36_OneLive == [][C36_Quiet /\ (C36_Starts => C36_Terminated(ev))]_vars

(***************************************************************************)
(* C37.  The number of passes of a For loop is fixed by its start and end  *)
(* values: what the body assigns to the counter, or to the variable the    *)
(* end bound was read from, does not change it.  A loop from start to end  *)
(* never makes more than end - start + 1 passes (none when end < start),   *)
(* and when the program has ended it has made exactly that many.           *)
(* C37_Loops are the For statements of the programs with their line,       *)
(* their counter and the values of their bounds when the loop began.       *)
(***************************************************************************)
C37_Loops ==
    {[prog |-> "ForSum", line |-> 2, counter |-> "i", start |-> 1, end |-> 5],
     [prog |-> "ForSum", line |-> 5, counter |-> "i", start |-> 3, end |-> 1],
     [prog |-> "ForOnce", line |-> 2, counter |-> "k", start |-> 1, end |-> 2],
     [prog |-> "ForAssign", line |-> 2, counter |-> "k", start |-> 1, end |-> 3],
     [prog |-> "ForShadow", line |-> 3, counter |-> "i", start |-> 1, end |-> 2]}

\* the passes made: each begins with scope.assign of the counter
C37_Passes(m, loop) ==
    Cardinality({j \in 1..Len(m.trace) : m.trace[j] = Event("assign", loop.line, loop.counter)})

C37_Bound(loop) == IF loop.end < loop.start THEN 0 ELSE loop.end - loop.start + 1

C37_FixedCount ==
    \A loop \in C37_Loops :
        ev.prog = loop.prog =>
            /\ C37_Passes(ev, loop) <= C37_Bound(loop)
            /\ (Finished /\ ev.status = "done") => C37_Passes(ev, loop) = C37_Bound(loop)
            /\ \A j \in 1..Len(ev.k) :
                  (ev.k[j].f = "for" /\ ev.k[j].stmt.lineNumber = loop.line) =>
                      /\ ev.k[j].end = loop.end
                      /\ ev.k[j].i = loop.start + C37_Passes(ev, loop)

\* the loop from 1 to 3 whose body sets the counter to 10 has made its
\* three passes
C37_Witness ==
    /\ ev.prog = "ForAssign" /\ Finished /\ ev.status = "done"
    /\ Displayed(ev) = <<"3">>
    /\ C37_Passes(ev, [prog |-> "ForAssign", line |-> 2, counter |-> "k", start |-> 1, end |-> 3]) = 3

(***************************************************************************)
(* C38.  For a text whose blocks are properly nested and closed,           *)
(* formatCode puts every block-closing line (End If, Until, the trailing   *)
(* While of a Do...While) at the level of the line that opened the block,  *)
(* so that the lines after a block are indented like the lines before it.  *)
(* C38_Walk reads the lines as the language does (a keyword is matched     *)
(* whatever its case, End and If separated by any white space) and gives   *)
(* the level of every line, or no levels when the blocks are not properly  *)
(* nested; a blank line has the level -1.  C38_Aligned is the statement    *)
(* for every text; C38_PlainClosers is the statement for the texts whose   *)
(* closing lines are `End If` with one space and Until.                    *)
(***************************************************************************)
RECURSIVE C38_Split(_, _)
C38_Split(t, line) ==
    IF t = <<>> THEN <<line>>
    ELSE IF Head(t) = "\n" THEN <<line>> \o C38_Split(Tail(t), <<>>)
    ELSE C38_Split(Tail(t), Append(line, Head(t)))

RECURSIVE C38_SkipSpace(_)
C38_SkipSpace(t) == IF t # <<>> /\ Head(t) \in {" ", "\t"} THEN C38_SkipSpace(Tail(t)) ELSE t

C38_Word(t, word) == t # <<>> /\ toLowerCase(Head(t)) = word /\ (Len(t) = 1 \/ t[2] \in {" ", "\t"})

C38_Kind(line) ==
    LET t == Trim(line)
    IN  CASE t = <<>> -> "blank"
          [] C38_Word(t, "if") -> "if"
          [] C38_Word(t, "else") -> "else"
          [] C38_Word(t, "end") /\ C38_Word(C38_SkipSpace(Tail(t)), "if") -> "end if"
          [] C38_Word(t, "do") -> "do"
          [] C38_Word(t, "until") -> "until"
          [] C38_Word(t, "while") -> "while"
          [] OTHER -> "plain"

RECURSIVE C38_Walk(_, _, _)
C38_Walk(lines, open, levels) ==
    IF lines = <<>> THEN [nested |-> open = <<>>, levels |-> levels]
    ELSE LET kind == C38_Kind(Head(lines))
             d == Len(open)
             top == IF d > 0 THEN open[d] ELSE "none"
             closed == SubSeq(open, 1, d - 1)
             NotNested == [nested |-> FALSE, levels |-> <<>>]
         IN  CASE kind = "blank" -> C38_Walk(Tail(lines), open, Append(levels, -1))
               [] kind \in {"if", "do"} -> C38_Walk(Tail(lines), Append(open, kind), Append(levels, d))
               [] kind = "else" ->
                     IF top = "if" THEN C38_Walk(Tail(lines), Append(closed, "else"), Append(levels, d - 1))
                     ELSE NotNested
               [] kind = "end if" ->
                     IF top \in {"if", "else"} THEN C38_Walk(Tail(lines), closed, Append(levels, d - 1))
                     ELSE NotNested
               [] kind \in {"until", "while"} ->
                     \* a While that no Do precedes opens a block no line of the texts closes
                     IF top = "do" THEN C38_Walk(Tail(lines), closed, Append(levels, d - 1))
                     ELSE NotNested
               [] OTHER -> C38_Walk(Tail(lines), open, Append(levels, d))

RECURSIVE C38_Spaces(_)
C38_Spaces(line) == IF line # <<>> /\ Head(line) = " " THEN 1 + C38_Spaces(Tail(line)) ELSE 0

\* the level a formatted line is indented at
C38_Indent(line) == IF line = <<>> THEN -1 ELSE C38_Spaces(line) \div 3

C38_Indents(text) ==
    LET lines == C38_Split(text, <<>>)
    IN  [i \in 1..Len(lines) |-> C38_Indent(lines[i])]

C38_Nesting == C38_Walk(C38_Split(code, <<>>), <<>>, <<>>)

C38_IsPlainCloser(line) ==
    /\ C38_Kind(line) # "while"
    /\ C38_Kind(line) = "end if" => Trim(line) = <<"End", " ", "If">>

\* the text is one formatCode returns
C38_Formatted == code = formatCode(code)

C38_PlainClosers ==
    (/\ C38_Formatted
     /\ C38_Nesting.nested
     /\ \A i \in 1..Len(C38_Split(code, <<>>)) : C38_IsPlainCloser(C38_Split(code, <<>>)[i]))
        => C38_Indents(code) = C38_Nesting.levels

C38_Aligned == (C38_Formatted /\ C38_Nesting.nested) => C38_Indents(code) = C38_Nesting.levels

(***************************************************************************)
(* C39.  Undo and redo keep the sequence past, present, future and only    *)
(* move the present within it: in every history reached by set, undo,      *)
(* redo and reset, undo then redo (when canUndo) and redo then undo (when  *)
(* canRedo) give the same history back; set of a text other than the       *)
(* present appends the old present to past and empties future; set of the  *)
(* present changes nothing; canUndo and canRedo say that past and future   *)
(* are not empty.                                                          *)
(***************************************************************************)
C39_Sequence(h) == h.past \o <<h.present>> \o h.future

C39_Algebra ==
    /\ code = history.present
    /\ C39_Sequence(undo(history)) = C39_Sequence(history)
    /\ C39_Sequence(redo(history)) = C39_Sequence(history)
    /\ canUndo(history) =>
          /\ Len(undo(history).past) = Len(history.past) - 1
          /\ redo(undo(history)) = history
    /\ canRedo(history) =>
          /\ Len(redo(history).past) = Len(history.past) + 1
          /\ undo(redo(history)) = history
    /\ ~canUndo(history) => undo(history) = history
    /\ ~canRedo(history) => redo(history) = history
    /\ \A newState \in Texts :
          set(history, newState) =
              IF newState = history.present THEN history
              ELSE [past |-> history.past \o <<history.present>>, present |-> newState, future |-> <<>>]
    /\ canUndo(history) <=> history.past # <<>>
    /\ canRedo(history) <=> history.future # <<>>

\* three texts were typed and one undone: the present has a past and a
\* future
C39_Witness ==
    /\ history = [past |-> << <<>>, <<"a">> >>, present |-> <<"b">>, future |-> << <<"a">> >>]
    /\ code = <<"b">>

(***************************************************************************)
(* C40. In every generated flowchart the node ids are unique, both          *)
(* endpoints of every edge are ids of emitted nodes, and every emitted     *)
(* node is reachable along edges from a start node.  C40_WellFormed is     *)
(* the first two parts, with the third for the programs that have no       *)
(* Return; C40_Connected is the whole statement.                           *)
(***************************************************************************)
C40_Ids == {flowchart.nodes[i].id : i \in 1..Len(flowchart.nodes)}

RECURSIVE C40_Reach(_)
C40_Reach(seen) ==
    LET Grown(more) == IF more \subseteq seen THEN seen ELSE C40_Reach(seen \cup more)
    IN  Grown({flowchart.edges[e].to :
                  e \in {x \in 1..Len(flowchart.edges) : flowchart.edges[x].from \in seen}})

C40_Reachable ==
    C40_Reach({flowchart.nodes[i].id : i \in {x \in 1..Len(flowchart.nodes) : flowchart.nodes[x].type = "start"}})

RECURSIVE C40_HasReturn(_)
C40_HasReturn(block) ==
    \E i \in 1..Len(block) :
        \/ block[i].type = "RETURN_STATEMENT"
        \/ block[i].type = "IF_STATEMENT"
              /\ (C40_HasReturn(block[i].thenBranch) \/ C40_HasReturn(block[i].elseBranch))
        \/ block[i].type \in {"WHILE_STATEMENT", "DO_UNTIL_STATEMENT", "FOR_STATEMENT",
                              "MODULE_STATEMENT", "FUNCTION_DECLARATION"}
              /\ C40_HasReturn(block[i].body)

C40_UniqueAndClosed ==
    /\ \A i, j \in 1..Len(flowchart.nodes) : flowchart.nodes[i].id = flowchart.nodes[j].id => i = j
    /\ \A e \in 1..Len(flowchart.edges) :
          flowchart.edges[e].from \in C40_Ids /\ flowchart.edges[e].to \in C40_Ids

C40_WellFormed ==
    flowchart.built =>
        /\ C40_UniqueAndClosed
        /\ ~C40_HasReturn(ast.statements) => C40_Ids \subseteq C40_Reachable

C40_Connected ==
    flowchart.built => (C40_UniqueAndClosed /\ C40_Ids \subseteq C40_Reachable)

(***************************************************************************)
(* C26.  Formatting is idempotent: for every text, of any lines, with      *)
(* block keywords, Else lines, blank lines and any spaces around them,     *)
(* formatting the formatted text gives the formatted text.                 *)
(***************************************************************************)
C26_Idempotent == formatCode(formatCode(code)) = formatCode(code)

\* the formatter has indented the branch of an If and put its Else back
C26_Witness ==
    code = <<"If", " ", "x", "\n", " ", " ", " ", "x", "\n", "Else">>

====
